---------------------------- MODULE Spec2Model ----------------------------
(***************************************************************************)
(* A model of queensac: the link checker (check_link and the forge 404     *)
(* resolver), the rename-following resolution loop                         *)
(* (find_current_location), the orchestrations that probe the extracted    *)
(* links, the pull-request generator (create_fix_pr) with its line edit    *)
(* (replace_line_content), the workspaces (TempDirGuard) and the           *)
(* cancellable tick loop (check_repository_links).                         *)
(*                                                                         *)
(* Strings are sequences of one-character strings, so that parsing,        *)
(* prefix / suffix tests and trimming are computed as the code computes    *)
(* them.                                                                   *)
(***************************************************************************)
EXTENDS Integers, Sequences, FiniteSets, TLC

VARIABLES
    \* ---- LinkChecker::check_link (one probe) ----
    ck_pc,          \* "idle" | "send" | "sleep" | "done"
    url,            \* the probed URL
    attempts,       \* the local `attempts` of check_link
    result,         \* the returned LinkCheckResult, NoResult before the return
    resp,           \* the outcome of the last client.get(url).send()
    sends,          \* HTTP attempts made
    errors,         \* attempts that ended in a transport error
    responses,      \* attempts that ended in an HTTP response
    sleeps,         \* 1-second sleeps taken
    resolver_calls, \* calls of handle_github_404
    clones,         \* calls of RepoManager::from_github_url
    env,            \* the remote repository behind a forge URL
    \* ---- RepoManager::find_current_location (one call) ----
    loc_pc,         \* "idle" | "loop" | "done"
    history,        \* the cloned repository
    current_path,   \* the local `current_path`
    loc_iters,      \* iterations of the loop entered so far
    loc_result,     \* the value returned
    loc_query,      \* the file path of the URL the call was made with
    loc_fail,       \* the git2 call made to fail in the last iteration
    \* ---- PullRequestGenerator::create_fix_pr (one call) ----
    pr_pc,          \* the step create_fix_pr is about to take
    fixes,          \* the argument `fixes`
    fix_idx,        \* position of the `for fix in fixes` loop of apply_fixes
    changes,        \* the local `changes` of apply_fixes
    files,          \* the working tree: path -> content, NoFile when absent
    steps,          \* the repository / forge operations performed, in order
    pr_result,      \* the returned Result<String, PrError>
    base_branch,    \* the generator's base_branch
    cloned_branch,  \* the local branch of the clone
    branch_name,    \* the local `branch_name` of create_fix_pr
    opened,         \* the pull request created at the forge, NoPull if none
    refs,           \* the references of the clone: name -> commit, "" if none
    head_ref,       \* the reference HEAD points to
    commit_parents, \* the parents of the commit made, <<>> before it is made
    \* ---- the orchestrations that probe the extracted links ----
    orch_pc,        \* "idle" | "stream" | "check_links" | "spawn" | "join" | "done"
    links,          \* number of links extracted
    spawned,        \* probes handed to the executor (tasks / stream futures)
    started,        \* check_link calls begun
    finished,       \* check_link calls returned
    \* ---- replace_line_content applied to one file, then once more ----
    ed_pc,          \* "idle" | "first" | "second" | "done"
    ed_in,          \* content, line_number, old_url, new_url of the first call
    ed_out1,        \* what the first call returned
    ed_out2,        \* what the call (line_number, new_url, new_url) returned
    \* ---- workspaces: TempDirGuard and its holders ----
    ws_pc,          \* per holder: "start" | "guarded" | "live" | "erred" |
                    \*             "released" | "failed"
    ws_path,        \* per holder: the path of its TempDirGuard, <<>> if none
    ws_dirs,        \* the workspace directories on disk, each with its creator
    ws_parents,     \* the parent directories on disk
    ws_clock,       \* the last SystemTime::now() read, in nanoseconds
    ws_rm_failed,   \* holders whose drop could not remove a directory
    \* ---- check_repository_links: the tick loop and its token ----
    sch_pc,         \* "idle" | "select" | "join" | "done"
    cancelled,      \* token.cancel() was called
    probes,         \* the check_link tasks of the current tick
    ticks,          \* tick bodies entered
    late_attempts,  \* HTTP attempts begun after the token was cancelled
    \* ---- check_links / stream_link_checks over the extracted links ----
    svc_pc,         \* "idle" | "cl_extract" | "cl_loop" | "cl_done" |
                    \* "st_extract" | "st_loop" | "st_done" | "erred" |
                    \* "sse_extract" | "sse_loop" | "sse_error" | "sse_end"
    svc_links,      \* the extracted links, in iteration order
    svc_state,      \* per link: "queued" | "pending" | "done"
    svc_results,    \* per link: what check_link returned, NoResult before
    counters,       \* LinkCheckCounters
    invalid_links,  \* check_links: the Vec<InvalidLinkInfo> being built
    sse_events,     \* the events the SSE stream has yielded, in order
    \* ---- extract_links_from_repo_url: the tree walk ----
    ex_pc,          \* "idle" | "clone" | "walk" | "done" | "erred"
    ex_files,       \* the paths of the tree entries visited, in walk order
    all_links,      \* the HashSet<LinkInfo> being built
    ex_seen,        \* every LinkInfo that was passed to insert
    \* ---- pure functions applied to drawn arguments ----
    fn_pc,          \* "idle" | "call" | "returned"
    fn_in,          \* the function called and its arguments
    fn_out,         \* what it returned
    \* ---- EmailClient::send_email_with_retry ----
    mail_pc,        \* "idle" | "loop" | "sending" | "sleeping" | "ok" | "err"
    max_retries,    \* the argument max_retries
    attempt,        \* the local `attempt`
    mail_sent,      \* requests sent so far
    mail_in_flight, \* requests sent and not yet answered
    mail_failed,    \* the errors of the attempts that failed, in order
    \* ---- REPO_TASKS and the calls that register and cancel checkers ----
    reg_rev,        \* the revision running: "schedule" (schedule/mod.rs) or
                    \* "rook" (link_checker/scheduler.rs with startup.rs)
    reg_pc,         \* per call of check_repository_links: "idle" | "check" |
                    \* "insert" | "select" | "tick" | "cleanup" | "done" |
                    \* "rejected"
    reg_key,        \* per call: its RepoKey, <<>> before the call
    REPO_TASKS,     \* RepoKey -> the call whose token is registered, 0 if none
    tok_cancelled,  \* the calls whose token was cancelled
    can_pc,         \* cancel_repository_checker: "idle" | "call" | "removed" |
                    \* "ok" | "err"
    can_key,        \* its RepoKey
    can_token,      \* the call whose token `map.remove` returned, 0 if None
    can_calls,      \* calls of cancel_repository_checker so far
    hd_pc,          \* per call, its check_handler: "none" | "mail" | "ok" |
                    \* "bad_request"
    hd_mailed       \* the calls whose handler sent "Repository checker started"

ckVars == <<ck_pc, url, attempts, result, resp, sends, errors, responses,
            sleeps, resolver_calls, clones, env>>

locVars == <<loc_pc, history, current_path, loc_iters, loc_result, loc_query,
             loc_fail>>

prVars == <<pr_pc, fixes, fix_idx, changes, files, steps, pr_result,
            base_branch, cloned_branch, branch_name, opened,
            refs, head_ref, commit_parents>>

orchVars == <<orch_pc, links, spawned, started, finished>>

edVars == <<ed_pc, ed_in, ed_out1, ed_out2>>

wsVars == <<ws_pc, ws_path, ws_dirs, ws_parents, ws_clock, ws_rm_failed>>

schVars == <<sch_pc, cancelled, probes, ticks, late_attempts>>

svcVars == <<svc_pc, svc_links, svc_state, svc_results, counters, invalid_links,
             sse_events>>

exVars == <<ex_pc, ex_files, all_links, ex_seen>>

fnVars == <<fn_pc, fn_in, fn_out>>

mailVars == <<mail_pc, max_retries, attempt, mail_sent, mail_in_flight, mail_failed>>

regVars == <<reg_rev, reg_pc, reg_key, REPO_TASKS, tok_cancelled, can_pc, can_key,
             can_token, can_calls, hd_pc, hd_mailed>>

moreVars == <<svcVars, exVars, fnVars, mailVars, regVars>>

extVars == <<edVars, wsVars, schVars, moreVars>>

\* The variables of the components above the link service, and those of
\* the registry.
oldVars == <<ckVars, locVars, prVars, orchVars, edVars, wsVars, schVars, regVars>>

\* The variables of every component but the registry.
nonRegVars == <<ckVars, locVars, prVars, orchVars, edVars, wsVars, schVars,
                svcVars, exVars, fnVars, mailVars>>

vars == <<ckVars, locVars, prVars, orchVars, extVars>>

-----------------------------------------------------------------------------
(* Strings *)

HasPrefix(s, p) == Len(s) >= Len(p) /\ SubSeq(s, 1, Len(p)) = p

HasSuffix(s, p) == Len(s) >= Len(p) /\ SubSeq(s, Len(s) - Len(p) + 1, Len(s)) = p

DropPrefix(s, n) == SubSeq(s, n + 1, Len(s))

\* The first index >= i of s holding a member of cs, Len(s) + 1 when none.
RECURSIVE FindFrom(_, _, _)
FindFrom(s, i, cs) ==
    IF i > Len(s) THEN Len(s) + 1
    ELSE IF s[i] \in cs THEN i
    ELSE FindFrom(s, i + 1, cs)

\* str::trim_end_matches(c)
RECURSIVE TrimEndMatches(_, _)
TrimEndMatches(s, c) ==
    IF Len(s) > 0 /\ s[Len(s)] = c THEN TrimEndMatches(SubSeq(s, 1, Len(s) - 1), c)
    ELSE s

Digits == {"0", "1", "2", "3", "4", "5", "6", "7", "8", "9"}

DigitVal(c) ==
    CASE c = "0" -> 0 [] c = "1" -> 1 [] c = "2" -> 2 [] c = "3" -> 3
      [] c = "4" -> 4 [] c = "5" -> 5 [] c = "6" -> 6 [] c = "7" -> 7
      [] c = "8" -> 8 [] OTHER -> 9

RECURSIVE DecVal(_)
DecVal(s) == IF s = <<>> THEN 0
             ELSE 10 * DecVal(SubSeq(s, 1, Len(s) - 1)) + DigitVal(s[Len(s)])

\* ASCII lower-casing of the upper-case letters the inputs use.
LowerChar(c) == CASE c = "G" -> "g" [] c = "H" -> "h" [] OTHER -> c

Lower(s) == [i \in 1..Len(s) |-> LowerChar(s[i])]

\* A byte outside visible ASCII, as a header value may carry.
OBS == "0x80"

None == [some |-> FALSE, val |-> <<>>]

Some(v) == [some |-> TRUE, val |-> v]

HTTP == <<"h", "t", "t", "p", ":", "/", "/">>

HTTPS == <<"h", "t", "t", "p", "s", ":", "/", "/">>

WWW == <<"w", "w", "w", ".">>

GITHUB_COM == <<"g", "i", "t", "h", "u", "b", ".", "c", "o", "m">>

DOT_GITHUB_COM == <<".">> \o GITHUB_COM

-----------------------------------------------------------------------------
(* url::Url::parse, for http(s) URLs without userinfo, percent-encoding or  *)
(* dot segments: scheme, lower-cased host, port with the scheme's default  *)
(* elided, path ("/" when empty) and query.                                *)

DefaultPort(scheme) == IF scheme = "https" THEN 443 ELSE 80

UrlParse(s) ==
    LET scheme == IF HasPrefix(s, HTTPS) THEN "https"
                  ELSE IF HasPrefix(s, HTTP) THEN "http" ELSE "none"
        rest == IF scheme = "https" THEN DropPrefix(s, Len(HTTPS))
                ELSE IF scheme = "http" THEN DropPrefix(s, Len(HTTP)) ELSE <<>>
        authEnd == FindFrom(rest, 1, {"/", "?", "#"})
        authority == SubSeq(rest, 1, authEnd - 1)
        colon == FindFrom(authority, 1, {":"})
        host == Lower(SubSeq(authority, 1, colon - 1))
        portStr == SubSeq(authority, colon + 1, Len(authority))
        portOk == \A i \in 1..Len(portStr) : portStr[i] \in Digits
        portVal == IF portOk THEN DecVal(portStr) ELSE 0
        pathEnd == FindFrom(rest, authEnd, {"?", "#"})
        rawPath == SubSeq(rest, authEnd, pathEnd - 1)
        fragAt == FindFrom(rest, pathEnd, {"#"})
        hasQuery == pathEnd <= Len(rest) /\ rest[pathEnd] = "?"
    IN  IF scheme = "none" \/ host = <<>> \/ OBS \in {host[i] : i \in 1..Len(host)}
           \/ ~portOk \/ portVal > 65535
        THEN [ok |-> FALSE, scheme |-> "none", host |-> <<>>, port |-> 0,
              path |-> <<>>, query |-> None]
        ELSE [ok |-> TRUE,
              scheme |-> scheme,
              host |-> host,
              \* Url::port(): None (0 here) for an absent or default port
              port |-> IF portStr = <<>> \/ portVal = DefaultPort(scheme) THEN 0
                       ELSE portVal,
              path |-> IF rawPath = <<>> THEN <<"/">> ELSE rawPath,
              query |-> IF hasQuery THEN Some(SubSeq(rest, pathEnd + 1, fragAt - 1))
                        ELSE None]

\* Faulty variant of is_github_url: a substring test on the host.
is_github_url_contains(u) ==
    LET p == UrlParse(u)
    IN  p.ok /\ \E i \in 1..Len(p.host) :
                   HasPrefix(DropPrefix(p.host, i - 1), GITHUB_COM)

\* is_github_url: the parsed host is github.com or ends with ".github.com"
is_github_url(u) ==
    LET p == UrlParse(u)
    IN  p.ok /\ (p.host = GITHUB_COM \/ HasSuffix(p.host, DOT_GITHUB_COM))

\* is_trivial_redirect(original, redirect)
is_trivial_redirect(original, redirect) ==
    LET o == UrlParse(original)
        r == UrlParse(redirect)
        trimmed == TrimEndMatches(o.path, "/")
    IN  IF ~o.ok \/ ~r.ok THEN FALSE
        ELSE IF o.scheme # r.scheme \/ o.host # r.host \/ o.port # r.port THEN FALSE
        ELSE IF o.query # r.query THEN FALSE
        ELSE r.path = trimmed \o <<"/">> \/ r.path = trimmed

-----------------------------------------------------------------------------
(* GitHubUrl::parse: the regex                                              *)
(* ^https?://(?:www\.)?github\.com/([^/]+)/([^/]+)                          *)
(*     (?:/(?:tree|blob)/([^/]+)(?:/(.+))?)?$                               *)
(* (case-sensitive; the inputs hold no newline).                            *)

\* str::split(c)
RECURSIVE SplitBy(_, _)
SplitBy(s, c) ==
    LET i == FindFrom(s, 1, {c})
    IN  IF i > Len(s) THEN <<s>>
        ELSE <<SubSeq(s, 1, i - 1)>> \o SplitBy(SubSeq(s, i + 1, Len(s)), c)

TREE == <<"t", "r", "e", "e">>

BLOB == <<"b", "l", "o", "b">>

NoGitHubUrl == [ok |-> FALSE, owner |-> <<>>, repo |-> <<>>, branch |-> None,
                file_path |-> None]

\* Faulty variant of the last capture: the last segment alone.
AfterBranch_last_segment(tail, segs) == segs[Len(segs)]

\* `(?:/(.+))?`: the text after owner/repo/(tree|blob)/branch/
AfterBranch(tail, segs) ==
    DropPrefix(tail, Len(segs[1]) + Len(segs[2]) + Len(segs[3]) + Len(segs[4]) + 4)

GitHubUrlParse(u) ==
    LET afterScheme == IF HasPrefix(u, HTTPS) THEN Some(DropPrefix(u, Len(HTTPS)))
                       ELSE IF HasPrefix(u, HTTP) THEN Some(DropPrefix(u, Len(HTTP)))
                       ELSE None
        a == afterScheme.val
        b == IF HasPrefix(a, WWW) THEN DropPrefix(a, Len(WWW)) ELSE a
        hostOk == afterScheme.some /\ HasPrefix(b, GITHUB_COM \o <<"/">>)
        tail == DropPrefix(b, Len(GITHUB_COM) + 1)
        segs == SplitBy(tail, "/")
        n == Len(segs)
        rest == AfterBranch(tail, segs)
    IN  IF ~hostOk \/ n < 2 THEN NoGitHubUrl
        ELSE IF segs[1] = <<>> \/ segs[2] = <<>> THEN NoGitHubUrl
        ELSE IF n = 2
             THEN [ok |-> TRUE, owner |-> segs[1], repo |-> segs[2],
                   branch |-> None, file_path |-> None]
        ELSE IF n = 3 \/ segs[3] \notin {TREE, BLOB} \/ segs[4] = <<>> THEN NoGitHubUrl
        ELSE IF n = 4
             THEN [ok |-> TRUE, owner |-> segs[1], repo |-> segs[2],
                   branch |-> Some(segs[4]), file_path |-> None]
        ELSE IF rest = <<>> THEN NoGitHubUrl
        ELSE [ok |-> TRUE, owner |-> segs[1], repo |-> segs[2],
              branch |-> Some(segs[4]), file_path |-> Some(rest)]

\* GitHubUrl::clone_url
clone_url(g) == HTTPS \o GITHUB_COM \o <<"/">> \o g.owner \o <<"/">> \o g.repo

-----------------------------------------------------------------------------
(* A cloned repository: the commits reachable from HEAD in the order the   *)
(* revision walk yields them (HEAD first). A commit holds its tree (for    *)
(* each path a content identifier, 0 when the path is absent), its parent  *)
(* count and the position of its first parent. Two blobs with the same     *)
(* content identifier are similar at the rename threshold; blobs with      *)
(* different identifiers are not.                                          *)

PA == <<"a">>

PB == <<"b">>

PC == <<"c">>

PDA == <<"d", "/", "a">>

\* Paths in the order a tree diff lists them.
PathOrder == <<PA, PB, PC, PDA>>

Paths == {PathOrder[i] : i \in 1..Len(PathOrder)}

\* The content identifiers a path can hold; 0 is "absent". Only b takes a
\* second content, which keeps the set of histories small and still gives
\* modifications and a deletion beside an unrelated addition.
Contents(p) == IF p = PB THEN {1, 2} ELSE {1}

MaxCommits == 3

Trees == {t \in [Paths -> {0, 1, 2}] : \A p \in Paths : t[p] \in {0} \cup Contents(p)}

Min(S) == CHOOSE x \in S : \A y \in S : x <= y

Exists(tree, p) == p \in DOMAIN tree /\ tree[p] # 0

\* file_exists_in_repo: the path is in the tree of HEAD
file_exists_in_repo(h, p) == Exists(h[1].tree, p)

ParentTree(h, i) == h[h[i].parent].tree

\* The tree diff parent -> commit without rename detection has a delta for
\* p (its new_file path is p, also for a deletion) iff the two entries differ.
HasDelta(h, i, p) == p \in Paths /\ h[i].tree[p] # ParentTree(h, i)[p]

\* find_last_commit_id (the Commit-returning one that find_current_location
\* calls): the first walked commit with exactly one parent whose diff has a
\* delta with new path = target; 0 stands for Err("File not found").
find_last_commit_id(target, h) ==
    LET hits == {i \in 1..Len(h) : h[i].parent_count = 1 /\ HasDelta(h, i, target)}
    IN  IF hits = {} THEN 0 ELSE Min(hits)

Deleted(pt, t) == {p \in Paths : pt[p] # 0 /\ t[p] = 0}

Added(pt, t) == {p \in Paths : pt[p] = 0 /\ t[p] # 0}

FirstInOrder(S) == PathOrder[Min({i \in 1..Len(PathOrder) : PathOrder[i] \in S})]

\* Diff::find_similar: each deleted path, in diff order, is paired with the
\* first unused added path of similar content; the pair becomes one Renamed
\* delta <<old path, new path>>.
RECURSIVE FindSimilar(_, _, _, _)
FindSimilar(pt, t, i, used) ==
    IF i > Len(PathOrder) THEN {}
    ELSE LET p == PathOrder[i]
             cands == {q \in Added(pt, t) \ used : t[q] = pt[p]}
         IN  IF p \in Deleted(pt, t) /\ cands # {}
             THEN {<<p, FirstInOrder(cands)>>}
                    \cup FindSimilar(pt, t, i + 1, used \cup {FirstInOrder(cands)})
             ELSE FindSimilar(pt, t, i + 1, used)

RenamedDeltas(h, i) == FindSimilar(ParentTree(h, i), h[i].tree, 1, {})

\* track_file_rename_in_commit: the new path of the Renamed delta whose old
\* path is target_file; None for a commit without exactly one parent.
track_file_rename_in_commit(h, i, target_file) ==
    IF h[i].parent_count # 1 THEN None
    ELSE LET hit == {d \in RenamedDeltas(h, i) : d[1] = target_file}
         IN  IF hit = {} THEN None ELSE Some((CHOOSE d \in hit : TRUE)[2])

\* The git2 call that fails during a lookup, "none" when all succeed.
GitErrSet == {"none", "file_exists_in_repo", "find_last_commit_id",
              "track_file_rename_in_commit"}

\* One iteration of the loop of RepoManager::find_current_location.
\* git_err: the git2 call that fails when this iteration reaches it.
LocFound(p) == [kind |-> "found", path |-> p]

LocNone == [kind |-> "none", path |-> <<>>]

LocErr == [kind |-> "err", path |-> <<>>]

LocNext(p) == [kind |-> "next", path |-> p]

\* Faulty variant of LocStep: any path the commit added is followed.
LocStep_follow_any_delta(h, cur, git_err) ==
    IF git_err = "file_exists_in_repo" THEN LocErr
    ELSE IF file_exists_in_repo(h, cur) THEN LocFound(cur)
    ELSE IF git_err = "find_last_commit_id" THEN LocNone
    ELSE LET commit == find_last_commit_id(cur, h)
             added == IF commit = 0 THEN {}
                      ELSE Added(ParentTree(h, commit), h[commit].tree)
         IN  IF commit = 0 THEN LocNone
             ELSE IF git_err = "track_file_rename_in_commit" THEN LocErr
             ELSE IF added = {} THEN LocNone
             ELSE LocNext(FirstInOrder(added))

\* Faulty variant of LocStep: a failure of find_last_commit_id is propagated.
LocStep_last_commit_err(h, cur, git_err) ==
    IF git_err = "file_exists_in_repo" THEN LocErr
    ELSE IF file_exists_in_repo(h, cur) THEN LocFound(cur)
    ELSE IF git_err = "find_last_commit_id" THEN LocErr
    ELSE LET commit == find_last_commit_id(cur, h)
             new_path == IF commit = 0 THEN None
                         ELSE track_file_rename_in_commit(h, commit, cur)
         IN  IF commit = 0 THEN LocErr
             ELSE IF git_err = "track_file_rename_in_commit" THEN LocErr
             ELSE IF new_path.some THEN LocNext(new_path.val)
             ELSE LocNone

\* Faulty variant of LocStep: the new path of a rename is returned without
\* looking whether it still exists.
LocStep_return_new_path(h, cur, git_err) ==
    IF git_err = "file_exists_in_repo" THEN LocErr
    ELSE IF file_exists_in_repo(h, cur) THEN LocFound(cur)
    ELSE IF git_err = "find_last_commit_id" THEN LocNone
    ELSE LET commit == find_last_commit_id(cur, h)
             new_path == IF commit = 0 THEN None
                         ELSE track_file_rename_in_commit(h, commit, cur)
         IN  IF commit = 0 THEN LocNone
             ELSE IF git_err = "track_file_rename_in_commit" THEN LocErr
             ELSE IF new_path.some THEN LocFound(new_path.val)
             ELSE LocNone

\* One iteration: Found / None / Err end the loop, Next continues it.
LocStep(h, cur, git_err) ==
    IF git_err = "file_exists_in_repo" THEN LocErr
    ELSE IF file_exists_in_repo(h, cur) THEN LocFound(cur)
    ELSE IF git_err = "find_last_commit_id" THEN LocNone
    ELSE LET commit == find_last_commit_id(cur, h)
             new_path == IF commit = 0 THEN None
                         ELSE track_file_rename_in_commit(h, commit, cur)
         IN  IF commit = 0 THEN LocNone
             ELSE IF git_err = "track_file_rename_in_commit" THEN LocErr
             ELSE IF new_path.some THEN LocNext(new_path.val)
             ELSE LocNone

\* The loop run to its return, for at most fuel iterations.
RECURSIVE RunLoop(_, _, _, _)
RunLoop(h, cur, git_err, fuel) ==
    LET s == LocStep(h, cur, git_err)
    IN  IF s.kind = "next" /\ fuel > 0 THEN RunLoop(h, s.path, git_err, fuel - 1) ELSE s

\* RepoManager::find_current_location
find_current_location(h, github_url, git_err) ==
    IF ~github_url.file_path.some THEN LocErr      \* "No file path in URL"
    ELSE RunLoop(h, github_url.file_path.val, git_err, Len(h))

-----------------------------------------------------------------------------
(* LinkCheckResult *)

NoResult == [tag |-> "none", reason |-> "", status |-> 0, text |-> <<>>]

Valid == [tag |-> "Valid", reason |-> "", status |-> 0, text |-> <<>>]

Redirect(target) == [tag |-> "Redirect", reason |-> "", status |-> 0, text |-> target]

\* Invalid(format!("<reason>: {text}"))
Invalid(reason, text) == [tag |-> "Invalid", reason |-> reason, status |-> 0, text |-> text]

\* Invalid(format!("HTTP status code: {status}"))
InvalidStatus(status) ==
    [tag |-> "Invalid", reason |-> "HTTP status code", status |-> status, text |-> <<>>]

GitHubFileMoved(new_path) ==
    [tag |-> "GitHubFileMoved", reason |-> "", status |-> 0, text |-> new_path]

ResultTags == {"Valid", "Redirect", "Invalid", "GitHubFileMoved"}

(* The outcome of client.get(url).send(): a transport error, or a response  *)
(* with a status and possibly a Location header.                            *)

NoHeader == [present |-> FALSE, bytes |-> <<>>]

Header(bytes) == [present |-> TRUE, bytes |-> bytes]

NoResp == [kind |-> "none", status |-> 0, location |-> NoHeader]

TransportError == [kind |-> "error", status |-> 0, location |-> NoHeader]

HttpResponse(status, location) == [kind |-> "http", status |-> status, location |-> location]

\* HeaderValue::to_str succeeds iff every byte is visible ASCII
HeaderToStrOk(bytes) == \A i \in 1..Len(bytes) : bytes[i] # OBS

\* StatusCode::is_success
is_success(status) == status >= 200 /\ status <= 299

\* Faulty variant of is_redirection: no upper limit.
is_redirection_from_300(status) == status >= 300

\* StatusCode::is_redirection
is_redirection(status) == status >= 300 /\ status <= 399

NoEnv == [clone_ok |-> FALSE, repo |-> <<>>, git_err |-> "none"]

\* Faulty variant of handle_github_404: an unlocatable file counts as Valid.
handle_github_404_none_is_valid(u, e) ==
    LET parsed == GitHubUrlParse(u)
        loc == find_current_location(e.repo, parsed, e.git_err)
    IN  IF ~parsed.ok
        THEN [result |-> Invalid("Invalid GitHub URL format", u), cloned |-> FALSE]
        ELSE IF ~e.clone_ok
        THEN [result |-> Invalid("Error cloning repository", <<>>), cloned |-> TRUE]
        ELSE [result |-> CASE loc.kind = "found" -> GitHubFileMoved(loc.path)
                           [] loc.kind = "none" -> Valid
                           [] OTHER -> Invalid("Error finding file location", <<>>),
              cloned |-> TRUE]

\* Faulty variant of handle_github_404: a file that cannot be located is
\* reported as moved to the path of the URL.
handle_github_404_none_is_moved(u, e) ==
    LET parsed == GitHubUrlParse(u)
        loc == find_current_location(e.repo, parsed, e.git_err)
    IN  IF ~parsed.ok
        THEN [result |-> Invalid("Invalid GitHub URL format", u), cloned |-> FALSE]
        ELSE IF ~e.clone_ok
        THEN [result |-> Invalid("Error cloning repository", <<>>), cloned |-> TRUE]
        ELSE [result |-> CASE loc.kind = "found" -> GitHubFileMoved(loc.path)
                           [] loc.kind = "none" /\ parsed.file_path.some ->
                                GitHubFileMoved(parsed.file_path.val)
                           [] loc.kind = "none" ->
                                Invalid("File not found in repository", u)
                           [] OTHER -> Invalid("Error finding file location", <<>>),
              cloned |-> TRUE]

\* handle_github_404; e is the remote repository and whether the clone and
\* the git2 calls succeed. Returns the result and whether a clone was made.
handle_github_404(u, e) ==
    LET parsed == GitHubUrlParse(u)
        loc == find_current_location(e.repo, parsed, e.git_err)
    IN  IF ~parsed.ok
        THEN [result |-> Invalid("Invalid GitHub URL format", u), cloned |-> FALSE]
        ELSE IF ~e.clone_ok
        THEN [result |-> Invalid("Error cloning repository", <<>>), cloned |-> TRUE]
        ELSE [result |-> CASE loc.kind = "found" -> GitHubFileMoved(loc.path)
                           [] loc.kind = "none" ->
                                Invalid("File not found in repository", u)
                           [] OTHER -> Invalid("Error finding file location", <<>>),
              cloned |-> TRUE]

\* Faulty variant of OnRedirection: the header value is not required to
\* be readable as a string.
OnRedirection_unreadable_is_redirect(u, location) ==
    IF location.present
    THEN IF is_trivial_redirect(u, location.bytes) THEN Valid
         ELSE Redirect(location.bytes)
    ELSE Valid

\* The Location header of a redirection, classified (checker.rs:73-81).
OnRedirection(u, location) ==
    IF location.present /\ HeaderToStrOk(location.bytes)
    THEN IF is_trivial_redirect(u, location.bytes) THEN Valid
         ELSE Redirect(location.bytes)
    ELSE Valid

\* The Ok(res) arm of check_link: the result, whether handle_github_404 was
\* called, and whether it cloned.
OnResponse(u, status, location, e) ==
    IF is_success(status)
    THEN [result |-> Valid, resolved |-> FALSE, cloned |-> FALSE]
    ELSE IF is_redirection(status)
    THEN [result |-> OnRedirection(u, location), resolved |-> FALSE, cloned |-> FALSE]
    ELSE IF status = 404 /\ is_github_url(u)
    THEN [result |-> handle_github_404(u, e).result, resolved |-> TRUE,
          cloned |-> handle_github_404(u, e).cloned]
    ELSE [result |-> InvalidStatus(status), resolved |-> FALSE, cloned |-> FALSE]

\* Faulty variant of IsLastAttempt: an off-by-one test.
IsLastAttempt_zero(a) == a = 0

\* `if attempts == 1` in the Err(e) arm
IsLastAttempt(a) == a = 1

\* Faulty variant of AfterError: the decrement is missing.
AfterError_keep(a) == a

\* `attempts -= 1` in the Err(e) arm
AfterError(a) == a - 1

\* `let mut attempts = 3`
InitialAttempts == 3

-----------------------------------------------------------------------------
(* The inputs of a probe. *)

Tree(a, b, da) == (PA :> a) @@ (PB :> b) @@ (PC :> 0) @@ (PDA :> da)

RootCommit(t) == [tree |-> t, parent_count |-> 0, parent |-> 0]

Commit(t, parent) == [tree |-> t, parent_count |-> 1, parent |-> parent]

MergeCommit(t) == [tree |-> t, parent_count |-> 2, parent |-> 0]

\* a renamed to b
RepoMoved == <<Commit(Tree(0, 1, 0), 2), RootCommit(Tree(1, 0, 0))>>

\* a renamed to b, then b renamed to d/a
RepoChain == <<Commit(Tree(0, 0, 1), 2), Commit(Tree(0, 1, 0), 3), RootCommit(Tree(1, 0, 0))>>

\* a deleted
RepoDeleted == <<Commit(Tree(0, 2, 0), 2), RootCommit(Tree(1, 2, 0))>>

\* a still in place
RepoPresent == <<RootCommit(Tree(1, 0, 0))>>

SampleRepos == {RepoMoved, RepoChain, RepoDeleted, RepoPresent}

EnvSet == [clone_ok : BOOLEAN, repo : SampleRepos, git_err : GitErrSet]

E_IO == <<"e", ".", "i", "o">>

DOCS == <<"/", "d", "o", "c", "s">>

FILE_A == <<"/", "o", "/", "r", "/", "b", "l", "o", "b", "/", "m", "/", "a">>

UrlForgeFile == HTTPS \o GITHUB_COM \o FILE_A

UrlForgeRepo == HTTPS \o GITHUB_COM \o <<"/", "o", "/", "r">>

UrlForgeSubdomain == HTTPS \o <<"a", "p", "i">> \o DOT_GITHUB_COM \o FILE_A

UrlForgeUpper == HTTP \o <<"G">> \o DropPrefix(GITHUB_COM, 1) \o FILE_A

UrlNotGithub == HTTPS \o <<"n", "o", "t">> \o GITHUB_COM \o FILE_A

UrlGithubPrefix == HTTPS \o GITHUB_COM \o <<".", "e", ".", "i", "o">> \o FILE_A

UrlDocs == HTTPS \o E_IO \o DOCS

UrlDocsSlash == HTTPS \o E_IO \o DOCS \o <<"/">>

UrlDocsSlashes == HTTPS \o E_IO \o DOCS \o <<"/", "/">>

UrlDocsQuery == HTTPS \o E_IO \o <<":", "4", "4", "3">> \o DOCS \o <<"?", "q">>

UrlSet == {UrlForgeFile, UrlForgeRepo, UrlForgeSubdomain, UrlForgeUpper, UrlNotGithub,
           UrlGithubPrefix, UrlDocs, UrlDocsSlash, UrlDocsSlashes, UrlDocsQuery}

LocationSet ==
    {NoHeader, Header(UrlDocs), Header(UrlDocsSlash), Header(UrlDocsSlashes),
     Header(HTTPS \o E_IO \o DOCS \o <<"?", "q">>),
     Header(HTTP \o E_IO \o DOCS \o <<"/">>),
     Header(HTTPS \o GITHUB_COM \o <<"/", "n", "/", "r">>),
     Header(DOCS \o <<"/">>),
     Header(UrlDocsSlash \o <<OBS>>)}

StatusSet == {200, 204, 301, 308, 404, 410, 500}

-----------------------------------------------------------------------------
(* RepoManager::find_current_location, one loop iteration per step. *)

\* A walked history of n commits from their trees ts and first-parent
\* positions ps (0: not exactly one parent). The last walked commit is a
\* root; an earlier one has one parent that the walk yields later, or is a
\* commit without exactly one parent (a merge, or another root).
HistoryOf(n, ts, ps) ==
    [i \in 1..n |-> IF ps[i] # 0 THEN Commit(ts[i], ps[i])
                    ELSE IF i = n THEN RootCommit(ts[i])
                    ELSE MergeCommit(ts[i])]

\* Every walked commit is reachable from HEAD: it is the parent of an
\* earlier walked commit, or a merge was walked before it.
WellFormedParents(n, ps) ==
    /\ ps[n] = 0
    /\ \A i \in 1..n : ps[i] = 0 \/ ps[i] > i
    /\ \A i \in 2..n : \E j \in 1..(i - 1) : ps[j] = i \/ ps[j] = 0

\* a renamed to b, a created again, a deleted
RepoRecreated ==
    <<Commit(Tree(0, 1, 0), 2), Commit(Tree(1, 1, 0), 3), Commit(Tree(0, 1, 0), 4),
      RootCommit(Tree(1, 0, 0))>>

\* a renamed to b on one branch and deleted on another, then merged; the
\* walk yields the deleting commit first
RepoSideDelete ==
    <<MergeCommit(Tree(0, 1, 0)), Commit(Tree(0, 0, 0), 4), Commit(Tree(0, 1, 0), 4),
      RootCommit(Tree(1, 0, 0))>>

\* Histories longer than MaxCommits that are walked as well.
LongRepos == {RepoRecreated, RepoSideDelete}

\* Result<String, PrError> of create_fix_pr; NoPrResult before the return.
NoPrResult == [tag |-> "none", text |-> ""]

PrOk(pr_url) == [tag |-> "Ok", text |-> pr_url]

PrErr(variant, message) == [tag |-> variant, text |-> message]

CkIdle ==
    /\ ck_pc = "idle" /\ url = <<>> /\ attempts = 0 /\ result = NoResult
    /\ resp = NoResp /\ sends = 0 /\ errors = 0 /\ responses = 0 /\ sleeps = 0
    /\ resolver_calls = 0 /\ clones = 0 /\ env = NoEnv

LocIdle ==
    /\ loc_pc = "idle" /\ history = <<>> /\ current_path = <<>>
    /\ loc_iters = 0 /\ loc_result = LocNone
    /\ loc_query = <<>> /\ loc_fail = "none"

\* No pull request created.
NoPull == [created |-> FALSE, head |-> <<>>, base |-> <<>>]

\* pulls(owner, repo).create(title, head, base)
Pull(head, base) == [created |-> TRUE, head |-> head, base |-> base]

PrIdle ==
    /\ pr_pc = "idle" /\ fixes = <<>> /\ fix_idx = 0 /\ changes = <<>>
    /\ files = <<>> /\ steps = <<>> /\ pr_result = NoPrResult
    /\ base_branch = <<>> /\ cloned_branch = <<>> /\ branch_name = <<>>
    /\ opened = NoPull
    /\ refs = <<>> /\ head_ref = <<>> /\ commit_parents = <<>>

OrchIdle ==
    /\ orch_pc = "idle" /\ links = 0 /\ spawned = 0 /\ started = 0 /\ finished = 0

\* No call of replace_line_content made.
NoEdit == [ok |-> FALSE, err |-> "", content |-> <<>>]

EdIdle ==
    /\ ed_pc = "idle" /\ ed_in = <<>> /\ ed_out1 = NoEdit /\ ed_out2 = NoEdit

WsIdle ==
    /\ ws_pc = <<>> /\ ws_path = <<>> /\ ws_dirs = {} /\ ws_parents = {}
    /\ ws_clock = 0 /\ ws_rm_failed = {}

SchIdle ==
    /\ sch_pc = "idle" /\ cancelled = FALSE /\ probes = <<>> /\ ticks = 0
    /\ late_attempts = 0

NoCounters == [total |-> 0, valid |-> 0, invalid |-> 0, redirect |-> 0, moved |-> 0]

SvcIdle ==
    /\ svc_pc = "idle" /\ svc_links = <<>> /\ svc_state = <<>>
    /\ svc_results = <<>> /\ counters = NoCounters /\ invalid_links = <<>>
    /\ sse_events = <<>>

ExIdle ==
    /\ ex_pc = "idle" /\ ex_files = <<>> /\ all_links = {} /\ ex_seen = {}

FnIdle ==
    /\ fn_pc = "idle" /\ fn_in = <<>> /\ fn_out = <<>>

MailIdle ==
    /\ mail_pc = "idle" /\ max_retries = 0 /\ attempt = 0 /\ mail_sent = 0
    /\ mail_in_flight = 0 /\ mail_failed = <<>>

RegIdle ==
    /\ reg_rev = "none" /\ reg_pc = <<>> /\ reg_key = <<>> /\ REPO_TASKS = <<>>
    /\ tok_cancelled = {} /\ can_pc = "idle" /\ can_key = <<>> /\ can_token = 0
    /\ can_calls = 0 /\ hd_pc = <<>> /\ hd_mailed = {}

MoreIdle == SvcIdle /\ ExIdle /\ FnIdle /\ MailIdle /\ RegIdle

ExtIdle == EdIdle /\ WsIdle /\ SchIdle /\ MoreIdle

OldIdle ==
    CkIdle /\ LocIdle /\ PrIdle /\ OrchIdle /\ EdIdle /\ WsIdle /\ SchIdle /\ RegIdle

NonRegIdle ==
    /\ CkIdle /\ LocIdle /\ PrIdle /\ OrchIdle /\ EdIdle /\ WsIdle /\ SchIdle
    /\ SvcIdle /\ ExIdle /\ FnIdle /\ MailIdle

\* find_current_location(github_url) is entered with a file path:
\* `let mut current_path = file_path.to_string()`
InitLoc ==
    /\ CkIdle /\ PrIdle /\ OrchIdle /\ ExtIdle
    /\ loc_pc = "loop"
    /\ \/ \E n \in 1..MaxCommits :
            \E ts \in [1..n -> Trees], ps \in [1..n -> 0..n] :
               /\ WellFormedParents(n, ps)
               /\ history = HistoryOf(n, ts, ps)
       \/ history \in LongRepos
    /\ current_path \in Paths
    /\ loc_query = current_path
    /\ loc_fail = "none"
    /\ loc_iters = 0
    /\ loc_result = LocNone

\* One iteration of `loop { ... }`: it returns, or assigns current_path.
LocIterate ==
    /\ loc_pc = "loop"
    /\ loc_iters' = loc_iters + 1
    /\ \E git_err \in GitErrSet :
         LET s == LocStep(history, current_path, git_err)
         IN  /\ loc_fail' = git_err
             /\ IF s.kind = "next"
                THEN /\ current_path' = s.path
                     /\ UNCHANGED <<loc_pc, loc_result>>
                ELSE /\ loc_pc' = "done"
                     /\ loc_result' = s
                     /\ UNCHANGED current_path
    /\ UNCHANGED <<history, loc_query>>
    /\ UNCHANGED <<ckVars, prVars, orchVars, extVars>>

NextLoc == LocIterate

SpecLoc == InitLoc /\ [][NextLoc]_vars

-----------------------------------------------------------------------------
(* LinkChecker::check_link *)

\* check_link(url) is entered: `let mut attempts = 3`
InitCheck ==
    /\ ck_pc = "send"
    /\ url \in UrlSet
    /\ attempts = InitialAttempts
    /\ result = NoResult
    /\ resp = NoResp
    /\ sends = 0 /\ errors = 0 /\ responses = 0 /\ sleeps = 0
    /\ resolver_calls = 0 /\ clones = 0
    /\ env = NoEnv
    /\ LocIdle /\ PrIdle /\ OrchIdle /\ ExtIdle

\* One pass of the loop body up to its return or its sleep:
\* client.get(url).send().await and the match on its outcome.
SendRequest ==
    /\ ck_pc = "send"
    /\ sends' = sends + 1
    /\ \/ /\ resp' = TransportError
          /\ errors' = errors + 1
          /\ IF IsLastAttempt(attempts)
             THEN /\ result' = Invalid("Request error", <<>>)
                  /\ ck_pc' = "done"
                  /\ attempts' = attempts
             ELSE /\ result' = result
                  /\ ck_pc' = "sleep"
                  /\ attempts' = AfterError(attempts)
          /\ UNCHANGED <<responses, resolver_calls, clones, env>>
       \/ \E status \in StatusSet, location \in LocationSet, e \in EnvSet :
            LET r == OnResponse(url, status, location, e)
            IN  /\ location.present => status \in 300..399
                /\ resp' = HttpResponse(status, location)
                /\ responses' = responses + 1
                /\ result' = r.result
                /\ ck_pc' = "done"
                /\ resolver_calls' = resolver_calls + (IF r.resolved THEN 1 ELSE 0)
                /\ clones' = clones + (IF r.cloned THEN 1 ELSE 0)
                /\ env' = IF r.resolved THEN e ELSE NoEnv
                /\ UNCHANGED <<errors, attempts>>
    /\ UNCHANGED <<url, sleeps>>
    /\ UNCHANGED <<locVars, prVars, orchVars, extVars>>

\* tokio::time::sleep(1 s), then the loop condition `attempts > 0`; when it
\* fails the function falls through to its last line.
Sleep ==
    /\ ck_pc = "sleep"
    /\ sleeps' = sleeps + 1
    /\ IF attempts > 0
       THEN ck_pc' = "send" /\ result' = result
       ELSE ck_pc' = "done" /\ result' = Invalid("Max retries exceeded", <<>>)
    /\ UNCHANGED <<url, attempts, resp, sends, errors, responses, resolver_calls,
                   clones, env>>
    /\ UNCHANGED <<locVars, prVars, orchVars, extVars>>

NextCheck == SendRequest \/ Sleep

SpecCheck == InitCheck /\ [][NextCheck]_vars

-----------------------------------------------------------------------------
(* The text operations of replace_line_content. *)

LF == "\n"

CR == "\r"

\* str::lines(): split at "\n"; a final line without "\n" counts, no line
\* follows a final "\n"; a "\r" before the "\n" is dropped with it.
RECURSIVE Lines(_)
Lines(content) ==
    IF content = <<>> THEN <<>>
    ELSE LET i == FindFrom(content, 1, {LF})
             raw == SubSeq(content, 1, i - 1)
             line == IF i <= Len(content) /\ Len(raw) > 0 /\ raw[Len(raw)] = CR
                     THEN SubSeq(raw, 1, Len(raw) - 1) ELSE raw
         IN  <<line>> \o Lines(SubSeq(content, i + 1, Len(content)))

\* [&str]::join("\n")
RECURSIVE Join(_)
Join(lines) ==
    IF lines = <<>> THEN <<>>
    ELSE IF Len(lines) = 1 THEN lines[1]
    ELSE lines[1] \o <<LF>> \o Join(Tail(lines))

\* str::contains(pat)
Contains(s, pat) == \E i \in 0..Len(s) : HasPrefix(DropPrefix(s, i), pat)

\* Faulty variant of Replace: `to` is inserted and the match is kept.
RECURSIVE Replace_keep_match(_, _, _)
Replace_keep_match(s, from, to) ==
    IF s = <<>> THEN <<>>
    ELSE IF from # <<>> /\ HasPrefix(s, from)
    THEN to \o from \o Replace_keep_match(DropPrefix(s, Len(from)), from, to)
    ELSE <<s[1]>> \o Replace_keep_match(Tail(s), from, to)

\* str::replace(from, to): every non-overlapping match, left to right; the
\* empty pattern matches before every character and at the end.
RECURSIVE Replace(_, _, _)
Replace(s, from, to) ==
    IF from = <<>>
    THEN to \o (IF s = <<>> THEN <<>> ELSE <<s[1]>> \o Replace(Tail(s), from, to))
    ELSE IF s = <<>> THEN <<>>
    ELSE IF HasPrefix(s, from) THEN to \o Replace(DropPrefix(s, Len(from)), from, to)
    ELSE <<s[1]>> \o Replace(Tail(s), from, to)

\* Faulty variant of replace_line_content: the line is not tested for old_url.
replace_line_content_unchecked(content, line_number, old_url, new_url) ==
    LET lines == Lines(content)
        line_index == line_number - 1
        old_line == lines[line_index + 1]
        new_line == Replace(old_line, old_url, new_url)
    IN  IF line_number = 0 \/ line_number > Len(lines)
        THEN [ok |-> FALSE, err |-> "Invalid line number", content |-> <<>>]
        ELSE [ok |-> TRUE, err |-> "",
              content |-> Join([lines EXCEPT ![line_index + 1] = new_line])]

\* PullRequestGenerator::replace_line_content
replace_line_content(content, line_number, old_url, new_url) ==
    LET lines == Lines(content)
        line_index == line_number - 1
        old_line == lines[line_index + 1]
        new_line == Replace(old_line, old_url, new_url)
    IN  IF line_number = 0 \/ line_number > Len(lines)
        THEN [ok |-> FALSE, err |-> "Invalid line number", content |-> <<>>]
        ELSE IF ~Contains(old_line, old_url)
        THEN [ok |-> FALSE, err |-> "Old URL not found in line", content |-> <<>>]
        ELSE [ok |-> TRUE, err |-> "",
              content |-> Join([lines EXCEPT ![line_index + 1] = new_line])]

-----------------------------------------------------------------------------
(* replace_line_content on one file: the call (line_number, old_url,       *)
(* new_url), then the call (line_number, new_url, new_url) on its result.  *)

MaxLine == 3

EditContents ==
    { <<"o", "t", "o", LF, "t", LF>>,
      <<"t", LF, "o">>,
      <<"t", CR, LF, "o">>,
      <<"t", CR, CR, LF, "o">>,
      <<"o">> }

EditStrings == { <<"o">>, <<"n">>, <<>>, <<"n", LF>>, <<"n", CR>>, <<"o", "n">> }

EditInputs ==
    [content : EditContents, line_number : 0..MaxLine,
     old_url : EditStrings, new_url : EditStrings]

InitEdit ==
    /\ CkIdle /\ LocIdle /\ PrIdle /\ OrchIdle /\ WsIdle /\ SchIdle /\ MoreIdle
    /\ ed_pc = "first"
    /\ ed_in \in EditInputs
    /\ ed_out1 = NoEdit
    /\ ed_out2 = NoEdit

\* self.replace_line_content(&current_content, fix.line_number,
\*                           &fix.old_content, &fix.new_content)
EditApply ==
    /\ ed_pc = "first"
    /\ ed_out1' = replace_line_content(ed_in.content, ed_in.line_number,
                                       ed_in.old_url, ed_in.new_url)
    /\ ed_pc' = IF ed_out1'.ok THEN "second" ELSE "done"
    /\ UNCHANGED <<ed_in, ed_out2>>
    /\ UNCHANGED <<ckVars, locVars, prVars, orchVars, wsVars, schVars, moreVars>>

\* The next fix of the same file and line, with old_content = new_content.
EditReapply ==
    /\ ed_pc = "second"
    /\ ed_out2' = replace_line_content(ed_out1.content, ed_in.line_number,
                                       ed_in.new_url, ed_in.new_url)
    /\ ed_pc' = "done"
    /\ UNCHANGED <<ed_in, ed_out1>>
    /\ UNCHANGED <<ckVars, locVars, prVars, orchVars, wsVars, schVars, moreVars>>

NextEdit ==
    \/ EditApply
    \/ EditReapply

SpecEdit == InitEdit /\ [][NextEdit]_vars

-----------------------------------------------------------------------------
(* PullRequestGenerator::create_fix_pr *)

NoFile == [exists |-> FALSE, content |-> <<>>]

File(content) == [exists |-> TRUE, content |-> content]

\* One repository / file-system / forge operation and whether it succeeded.
Step(op, arg, ok) == [op |-> op, arg |-> arg, ok |-> ok]

\* FileChange
FileChange(file_path, old_content, new_content, line_number) ==
    [file_path |-> file_path, old_content |-> old_content,
     new_content |-> new_content, line_number |-> line_number]

\* Faulty variant of Try: the error is dropped.
Try_ignore_err(ok, next) == next

\* The `?` after a step: Ok goes on to `next`, Err returns from create_fix_pr.
Try(ok, next) == IF ok THEN next ELSE "done"

\* Faulty variant of NoChangesToCreatePr: the test is missing.
NoChangesToCreatePr_never(cs) == FALSE

\* `if changes.is_empty()` of create_fix_pr
NoChangesToCreatePr(cs) == cs = <<>>

\* format!("{}", n) of an unsigned integer
RECURSIVE ToDecimal(_)
ToDecimal(n) ==
    LET digit(d) == CHOOSE c \in Digits : DigitVal(c) = d
    IN  IF n < 10 THEN <<digit(n)>> ELSE ToDecimal(n \div 10) \o <<digit(n % 10)>>

QUEENSAC_ == <<"q", "u", "e", "e", "n", "s", "a", "c", "-">>

\* generate_branch_name(): "queensac-" and the clock's milliseconds since
\* the epoch (0 when the clock is before it)
generate_branch_name(now) == QUEENSAC_ \o ToDecimal(now)

MaxMillis == 10

MAIN == <<"m", "a", "i", "n">>

\* Values of base_branch: the usual one and one of the generated form.
BaseBranches == {MAIN, generate_branch_name(MaxMillis)}

\* The branch checked out by the clone, its only local branch.
ClonedBranches == {MAIN, generate_branch_name(MaxMillis)}

\* Faulty variant of BranchCreatable: the branch is forced.
BranchCreatable_force(name, local) == TRUE

\* repo.branch(name, &head_commit, false): refused when the local branch
\* exists.
BranchCreatable(name, local) == name # local

README == "README.md"

GONE == "gone.md"

WorkPaths == {README, GONE}

OldUrl == <<"o">>

NewUrl == <<"n">>

DocSet == { <<"o", "t", "o", LF, "t", LF>>, <<"t", LF, "o">> }

MaxFixes == 2

FixSet == [file_path : WorkPaths, line_number : 0..MaxLine,
           old_content : {OldUrl, <<"z">>}, new_content : {NewUrl, <<"o", "n">>}]

\* The references of the clone.  The clone has one local branch, the one it
\* checked out, and a remote-tracking reference for every branch of the
\* remote: the cloned one, and the base branch when it is another one.
Local(name) == <<"refs/heads/", name>>

Remote(name) == <<"refs/remotes/origin/", name>>

BranchNames ==
    BaseBranches \cup ClonedBranches
        \cup {generate_branch_name(0), generate_branch_name(MaxMillis)}

RefNames == {Local(n) : n \in BranchNames} \cup {Remote(n) : n \in BranchNames}

\* builder.clone(url, dir): "c0" is the commit checked out, "c1" the tip of
\* another branch of the remote.
ClonedRefs(cloned, base) ==
    [r \in RefNames |->
        IF r \in {Local(cloned), Remote(cloned)} THEN "c0"
        ELSE IF r = Remote(base) THEN "c1"
        ELSE ""]

\* A checkout_branch that checks the tree out and leaves HEAD where it is.
HeadAfterCheckout_stay(name, head) == head

\* checkout_branch: revparse_ext(name) finds the local branch just created
\* and `set_head(gref.name())` points HEAD to it.
HeadAfterCheckout(name, head) == Local(name)

\* create_fix_pr(fixes) is entered on a cloned repository.
InitPr ==
    /\ CkIdle /\ LocIdle /\ OrchIdle /\ ExtIdle
    /\ pr_pc = "create_branch"
    /\ \E n \in 0..MaxFixes : fixes \in [1..n -> FixSet]
    /\ fix_idx = 1
    /\ changes = <<>>
    /\ \E d \in DocSet :
         files = [p \in WorkPaths |-> IF p = README THEN File(d) ELSE NoFile]
    /\ steps = <<>>
    /\ pr_result = NoPrResult
    /\ base_branch \in BaseBranches
    /\ cloned_branch \in ClonedBranches
    /\ branch_name = <<>>
    /\ opened = NoPull
    /\ refs = ClonedRefs(cloned_branch, base_branch)
    /\ head_ref = Local(cloned_branch)
    /\ commit_parents = <<>>

\* let branch_name = generate_branch_name();
\* self.create_branch(&branch_name).await?
CreateBranch ==
    /\ pr_pc = "create_branch"
    /\ \E now \in {0, MaxMillis},
          created \in BOOLEAN, checked_out \in BOOLEAN :
         LET name == generate_branch_name(now)
             ok == created /\ checked_out
         IN  /\ created => BranchCreatable(name, cloned_branch)
             /\ branch_name' = name
             /\ steps' = steps \o
                   (IF created
                    THEN <<Step("create_branch", name, TRUE),
                           Step("checkout_branch", name, checked_out)>>
                    ELSE <<Step("create_branch", name, FALSE)>>)
             /\ pr_pc' = Try(ok, "apply_fixes")
             /\ pr_result' = IF ok THEN pr_result ELSE PrErr("Git", "")
             /\ refs' = IF created THEN [refs EXCEPT ![Local(name)] = refs[head_ref]]
                        ELSE refs
             /\ head_ref' = IF ok THEN HeadAfterCheckout(name, head_ref) ELSE head_ref
    /\ UNCHANGED <<fixes, fix_idx, changes, files, commit_parents>>
    /\ UNCHANGED <<base_branch, cloned_branch, opened>>
    /\ UNCHANGED <<ckVars, locVars, orchVars, extVars>>

\* One pass of `for fix in fixes` in apply_fixes.
ApplyFix ==
    /\ pr_pc = "apply_fixes"
    /\ fix_idx <= Len(fixes)
    /\ fix_idx' = fix_idx + 1
    /\ LET fix == fixes[fix_idx]
           f == files[fix.file_path]
           r == replace_line_content(f.content, fix.line_number,
                                     fix.old_content, fix.new_content)
       IN  IF ~f.exists
           THEN UNCHANGED <<pr_pc, changes, files, steps, pr_result>>
           ELSE \E read_ok \in BOOLEAN, write_ok \in BOOLEAN :
                  LET ok == read_ok /\ r.ok /\ write_ok
                  IN  /\ pr_pc' = Try(ok, "apply_fixes")
                      /\ pr_result' =
                            IF ok THEN pr_result
                            ELSE IF ~read_ok THEN PrErr("File", "Failed to read file")
                            ELSE IF ~r.ok THEN PrErr("File", r.err)
                            ELSE PrErr("File", "Failed to write file")
                      /\ steps' = IF read_ok /\ r.ok
                                  THEN Append(steps, Step("write", fix.file_path, write_ok))
                                  ELSE steps
                      /\ files' = IF ok THEN [files EXCEPT ![fix.file_path] = File(r.content)]
                                  ELSE files
                      /\ changes' = IF ok
                                    THEN Append(changes,
                                                FileChange(fix.file_path, f.content,
                                                           r.content, fix.line_number))
                                    ELSE changes
    /\ UNCHANGED fixes
    /\ UNCHANGED <<base_branch, cloned_branch, branch_name, opened>>
    /\ UNCHANGED <<refs, head_ref, commit_parents>>
    /\ UNCHANGED <<ckVars, locVars, orchVars, extVars>>

\* apply_fixes returns Ok(changes); create_fix_pr tests changes.is_empty().
ApplyDone ==
    /\ pr_pc = "apply_fixes"
    /\ fix_idx > Len(fixes)
    /\ IF NoChangesToCreatePr(changes)
       THEN /\ pr_pc' = "done"
            /\ pr_result' = PrErr("Config", "No changes to create PR")
       ELSE /\ pr_pc' = "commit_changes"
            /\ pr_result' = pr_result
    /\ UNCHANGED <<fixes, fix_idx, changes, files, steps>>
    /\ UNCHANGED <<base_branch, cloned_branch, branch_name, opened>>
    /\ UNCHANGED <<refs, head_ref, commit_parents>>
    /\ UNCHANGED <<ckVars, locVars, orchVars, extVars>>

\* self.commit_changes(&changes).await?
CommitChanges ==
    /\ pr_pc = "commit_changes"
    /\ IF changes = <<>>
       THEN /\ pr_pc' = "push_to_remote"
            /\ UNCHANGED <<steps, pr_result, refs, commit_parents>>
       ELSE \E staged \in 0..Len(changes), committed \in BOOLEAN :
              LET ok == staged = Len(changes) /\ committed
                  adds == [i \in 1..staged |-> Step("add_file", changes[i].file_path, TRUE)]
              IN  /\ steps' = steps \o adds \o
                        (IF staged < Len(changes)
                         THEN <<Step("add_file", changes[staged + 1].file_path, FALSE)>>
                         ELSE <<Step("commit", branch_name, committed)>>)
                  /\ pr_pc' = Try(ok, "push_to_remote")
                  /\ pr_result' = IF ok THEN pr_result ELSE PrErr("Git", "")
                  /\ commit_parents' = IF ok THEN <<refs[head_ref]>> ELSE commit_parents
                  /\ refs' = IF ok THEN [refs EXCEPT ![head_ref] = "fix"] ELSE refs
    /\ UNCHANGED <<fixes, fix_idx, changes, files, head_ref>>
    /\ UNCHANGED <<base_branch, cloned_branch, branch_name, opened>>
    /\ UNCHANGED <<ckVars, locVars, orchVars, extVars>>

\* self.push_to_remote(branch_name.as_str()).await?
PushToRemote ==
    /\ pr_pc = "push_to_remote"
    /\ \E ok \in BOOLEAN :
         /\ steps' = Append(steps, Step("push", branch_name, ok))
         /\ pr_pc' = Try(ok, "generate_pull_request")
         /\ pr_result' = IF ok THEN pr_result ELSE PrErr("Git", "")
         /\ refs' = IF ok
                    THEN [refs EXCEPT ![Remote(branch_name)] = refs[Local(branch_name)]]
                    ELSE refs
    /\ UNCHANGED <<fixes, fix_idx, changes, files, head_ref, commit_parents>>
    /\ UNCHANGED <<base_branch, cloned_branch, branch_name, opened>>
    /\ UNCHANGED <<ckVars, locVars, orchVars, extVars>>

\* self.generate_pull_request_via_api(branch_name.as_str()).await? and Ok(pr_url)
GeneratePullRequest ==
    /\ pr_pc = "generate_pull_request"
    /\ \E outcome \in {"html_url", "no html_url", "api error"} :
         /\ steps' = Append(steps, Step("create_pr", branch_name, outcome # "api error"))
         /\ opened' = IF outcome # "api error" THEN Pull(branch_name, base_branch)
                       ELSE opened
         /\ pr_result' =
               CASE outcome = "html_url" -> PrOk("pr_url")
                 [] outcome = "no html_url" ->
                      PrErr("GitHub", "PR created but no URL returned by GitHub API")
                 [] OTHER -> PrErr("GitHub", "Failed to create PR")
    /\ pr_pc' = "done"
    /\ UNCHANGED <<fixes, fix_idx, changes, files>>
    /\ UNCHANGED <<base_branch, cloned_branch, branch_name>>
    /\ UNCHANGED <<refs, head_ref, commit_parents>>
    /\ UNCHANGED <<ckVars, locVars, orchVars, extVars>>

NextPr ==
    \/ CreateBranch
    \/ ApplyFix
    \/ ApplyDone
    \/ CommitChanges
    \/ PushToRemote
    \/ GeneratePullRequest

SpecPr == InitPr /\ [][NextPr]_vars

-----------------------------------------------------------------------------
(* The orchestrations: stream_link_checks, check_links and one tick of     *)
(* check_repository_links.  A probe is one check_link call, from its       *)
(* start to its return.                                                    *)

\* .buffer_unordered(10)
BUFFER_UNORDERED == 10

MaxLinks == 11

InFlight == started - finished

\* The links are extracted and one of the orchestrations begins on them.
InitOrch ==
    /\ CkIdle /\ LocIdle /\ PrIdle /\ ExtIdle
    /\ orch_pc \in {"stream", "check_links", "spawn"}
    /\ links \in 0..MaxLinks
    /\ spawned = 0 /\ started = 0 /\ finished = 0

\* stream_link_checks: buffer_unordered takes the next future of the
\* stream and polls it while fewer than its limit are pending.
StreamPoll ==
    /\ orch_pc = "stream"
    /\ spawned < links
    /\ InFlight < BUFFER_UNORDERED
    /\ spawned' = spawned + 1
    /\ started' = started + 1
    /\ UNCHANGED <<orch_pc, links, finished>>
    /\ UNCHANGED <<ckVars, locVars, prVars, extVars>>

\* stream_link_checks: a pending future completes.
StreamProbeReturn ==
    /\ orch_pc = "stream"
    /\ finished < started
    /\ finished' = finished + 1
    /\ UNCHANGED <<orch_pc, links, spawned, started>>
    /\ UNCHANGED <<ckVars, locVars, prVars, extVars>>

\* stream_link_checks: the stream is exhausted, for_each returns.
StreamEnd ==
    /\ orch_pc = "stream"
    /\ finished = links
    /\ orch_pc' = "done"
    /\ UNCHANGED <<links, spawned, started, finished>>
    /\ UNCHANGED <<ckVars, locVars, prVars, extVars>>

\* check_links: `for link in links { link_checker.check_link(..).await`
CheckLinksProbe ==
    /\ orch_pc = "check_links"
    /\ InFlight = 0
    /\ started < links
    /\ spawned' = spawned + 1
    /\ started' = started + 1
    /\ UNCHANGED <<orch_pc, links, finished>>
    /\ UNCHANGED <<ckVars, locVars, prVars, extVars>>

\* check_links: the awaited check_link returns, the loop body completes.
CheckLinksProbeReturn ==
    /\ orch_pc = "check_links"
    /\ finished < started
    /\ finished' = finished + 1
    /\ UNCHANGED <<orch_pc, links, spawned, started>>
    /\ UNCHANGED <<ckVars, locVars, prVars, extVars>>

\* check_links: the loop ends.
CheckLinksEnd ==
    /\ orch_pc = "check_links"
    /\ finished = links
    /\ orch_pc' = "done"
    /\ UNCHANGED <<links, spawned, started, finished>>
    /\ UNCHANGED <<ckVars, locVars, prVars, extVars>>

\* check_repository_links, one tick: `for link in links { tokio::spawn(..) }`
TickSpawn ==
    /\ orch_pc = "spawn"
    /\ spawned < links
    /\ spawned' = spawned + 1
    /\ UNCHANGED <<orch_pc, links, started, finished>>
    /\ UNCHANGED <<ckVars, locVars, prVars, extVars>>

\* check_repository_links: the spawning loop ends, `for handle in handles`
\* begins.
TickSpawnEnd ==
    /\ orch_pc = "spawn"
    /\ spawned = links
    /\ orch_pc' = "join"
    /\ UNCHANGED <<links, spawned, started, finished>>
    /\ UNCHANGED <<ckVars, locVars, prVars, extVars>>

\* A spawned task is run by the executor: it calls check_link.
TaskStart ==
    /\ orch_pc \in {"spawn", "join"}
    /\ started < spawned
    /\ started' = started + 1
    /\ UNCHANGED <<orch_pc, links, spawned, finished>>
    /\ UNCHANGED <<ckVars, locVars, prVars, extVars>>

\* A spawned task's check_link returns.
TaskReturn ==
    /\ orch_pc \in {"spawn", "join"}
    /\ finished < started
    /\ finished' = finished + 1
    /\ UNCHANGED <<orch_pc, links, spawned, started>>
    /\ UNCHANGED <<ckVars, locVars, prVars, extVars>>

\* check_repository_links: every handle has been awaited, the tick ends.
TickJoin ==
    /\ orch_pc = "join"
    /\ finished = links
    /\ orch_pc' = "done"
    /\ UNCHANGED <<links, spawned, started, finished>>
    /\ UNCHANGED <<ckVars, locVars, prVars, extVars>>

NextOrch ==
    \/ StreamPoll
    \/ StreamProbeReturn
    \/ StreamEnd
    \/ CheckLinksProbe
    \/ CheckLinksProbeReturn
    \/ CheckLinksEnd
    \/ TickSpawn
    \/ TickSpawnEnd
    \/ TaskStart
    \/ TaskReturn
    \/ TickJoin

SpecOrch == InitOrch /\ [][NextOrch]_vars

-----------------------------------------------------------------------------
(* Workspaces.  RepoManager::from and extract_links_from_repo_url each      *)
(* make a TempDirGuard on a directory under the system's temporary          *)
(* directory, clone into it, and remove it when the guard is dropped.  A    *)
(* path is the sequence of its components below the temporary directory.    *)

MaxHolders == 2

MaxNanos == 1

Holders == 1..MaxHolders

\* The repository every holder asks for.
WsUrl == [owner |-> "owner", repo |-> "repo"]

WsBranches == {None, Some("main")}

\* RepoManager::from: format!("github_repo_temp/{}/{}_{}", owner, repo, nanos)
temp_dir(github_url, nanos) ==
    <<"github_repo_temp", github_url.owner, <<github_url.repo, "_", nanos>>>>

\* generate_dir_name: format!("queensac_temp_repo/{}/{}/{}", user_name,
\* repo_name, branch.unwrap_or_default())
generate_dir_name(repo_url, branch) ==
    <<"queensac_temp_repo", repo_url.owner, repo_url.repo,
      IF branch.some THEN branch.val ELSE "">>

Parent(path) == SubSeq(path, 1, Len(path) - 1)

DirsAt(dirs, path) == {d \in dirs : d.path = path}

\* TempDirGuard::new(path) by holder h: an existing directory is removed,
\* the directory and its parents are created.
TempDirGuard_new(dirs, path, h, rm_ok, mk_ok) ==
    IF DirsAt(dirs, path) # {} /\ ~rm_ok THEN [ok |-> FALSE, dirs |-> dirs]
    ELSE IF ~mk_ok THEN [ok |-> FALSE, dirs |-> dirs \ DirsAt(dirs, path)]
    ELSE [ok |-> TRUE,
          dirs |-> (dirs \ DirsAt(dirs, path)) \cup {[path |-> path, by |-> h]}]

\* Faulty variant of TempDirGuard_drop: nothing is removed.
TempDirGuard_drop_keep(dirs, path, rm_ok) == dirs

\* Drop for TempDirGuard: let _ = fs::remove_dir_all(&self.path)
TempDirGuard_drop(dirs, path, rm_ok) ==
    IF rm_ok THEN dirs \ DirsAt(dirs, path) ELSE dirs

\* The holder has a TempDirGuard.
Live(h) == ws_pc[h] \in {"guarded", "live", "erred"}

InitWs ==
    /\ CkIdle /\ LocIdle /\ PrIdle /\ OrchIdle /\ EdIdle /\ SchIdle /\ MoreIdle
    /\ ws_pc = [h \in Holders |-> "start"]
    /\ ws_path = [h \in Holders |-> <<>>]
    /\ ws_dirs = {}
    /\ ws_parents = {}
    /\ ws_clock = 0
    /\ ws_rm_failed = {}

\* The start of RepoManager::from(url) or of
\* extract_links_from_repo_url(repo_url, branch): the path is computed and
\* TempDirGuard::new(temp_dir.clone()) is called.
WsAcquire(h) ==
    /\ ws_pc[h] = "start"
    /\ \E entry \in {"from", "extract_links_from_repo_url"}, branch \in WsBranches,
          now \in ws_clock..MaxNanos, rm_ok \in BOOLEAN, mk_ok \in BOOLEAN :
         LET path == IF entry = "from" THEN temp_dir(WsUrl, now)
                     ELSE generate_dir_name(WsUrl, branch)
             r == TempDirGuard_new(ws_dirs, path, h, rm_ok, mk_ok)
         IN  /\ ws_clock' = IF entry = "from" THEN now ELSE ws_clock
             /\ ws_dirs' = r.dirs
             /\ ws_parents' = IF r.ok THEN ws_parents \cup {Parent(path)}
                              ELSE ws_parents
             /\ ws_path' = IF r.ok THEN [ws_path EXCEPT ![h] = path] ELSE ws_path
             /\ ws_pc' = [ws_pc EXCEPT ![h] = IF r.ok THEN "guarded" ELSE "failed"]
    /\ UNCHANGED ws_rm_failed
    /\ UNCHANGED <<ckVars, locVars, prVars, orchVars, edVars, schVars, moreVars>>

\* The guard's holder goes out of scope.
DropGuard(h, pc) ==
    \E rm_ok \in BOOLEAN :
       /\ ws_dirs' = TempDirGuard_drop(ws_dirs, ws_path[h], rm_ok)
       /\ ws_rm_failed' = IF ~rm_ok /\ DirsAt(ws_dirs, ws_path[h]) # {}
                          THEN ws_rm_failed \cup {h} ELSE ws_rm_failed
       /\ ws_pc' = [ws_pc EXCEPT ![h] = pc]
       /\ UNCHANGED <<ws_path, ws_parents, ws_clock>>

\* builder.clone(url, &temp_dir)? : on Err the guard is dropped with the
\* function's locals.
WsClone(h) ==
    /\ ws_pc[h] = "guarded"
    /\ \/ /\ ws_pc' = [ws_pc EXCEPT ![h] = "live"]
          /\ UNCHANGED <<ws_path, ws_dirs, ws_parents, ws_clock, ws_rm_failed>>
       \/ DropGuard(h, "failed")
    /\ UNCHANGED <<ckVars, locVars, prVars, orchVars, edVars, schVars, moreVars>>

\* A later operation on the clone returns Err; the holder is still in scope.
WsOperationFails(h) ==
    /\ ws_pc[h] = "live"
    /\ ws_pc' = [ws_pc EXCEPT ![h] = "erred"]
    /\ UNCHANGED <<ws_path, ws_dirs, ws_parents, ws_clock, ws_rm_failed>>
    /\ UNCHANGED <<ckVars, locVars, prVars, orchVars, edVars, schVars, moreVars>>

\* The RepoManager (or the guard of extract_links_from_repo_url) is dropped.
WsDrop(h) ==
    /\ ws_pc[h] \in {"live", "erred"}
    /\ DropGuard(h, "released")
    /\ UNCHANGED <<ckVars, locVars, prVars, orchVars, edVars, schVars, moreVars>>

NextWs ==
    \E h \in Holders :
       \/ WsAcquire(h)
       \/ WsClone(h)
       \/ WsOperationFails(h)
       \/ WsDrop(h)

SpecWs == InitWs /\ [][NextWs]_vars

-----------------------------------------------------------------------------
(* check_repository_links: the loop that selects between the interval's     *)
(* tick and the cancellation token, and the check_link tasks of a tick.     *)

MaxTicks == 2

MaxProbes == 2

\* A spawned check_link task: "spawned" | "sending" | "sleeping" | "done".
Probe(st, a) == [st |-> st, attempts |-> a]

InitSched ==
    /\ CkIdle /\ LocIdle /\ PrIdle /\ OrchIdle /\ EdIdle /\ WsIdle /\ MoreIdle
    /\ sch_pc = "select"
    /\ cancelled = FALSE
    /\ probes = <<>>
    /\ ticks = 0
    /\ late_attempts = 0

\* select! takes `_ = interval.tick()`: the links are extracted and one
\* task per link is spawned (none when the extraction fails).
SchTick ==
    /\ sch_pc = "select"
    /\ ticks < MaxTicks
    /\ \E n \in 0..MaxProbes :
         probes' = [i \in 1..n |-> Probe("spawned", InitialAttempts)]
    /\ ticks' = ticks + 1
    /\ sch_pc' = "join"
    /\ UNCHANGED <<cancelled, late_attempts>>
    /\ UNCHANGED <<ckVars, locVars, prVars, orchVars, edVars, wsVars, moreVars>>

\* select! takes `_ = token.cancelled()`: break.
SchCancelled ==
    /\ sch_pc = "select"
    /\ cancelled
    /\ sch_pc' = "done"
    /\ UNCHANGED <<cancelled, probes, ticks, late_attempts>>
    /\ UNCHANGED <<ckVars, locVars, prVars, orchVars, edVars, wsVars, moreVars>>

\* cancel_repository_checker: token.cancel()
Cancel ==
    /\ sch_pc \in {"select", "join"}
    /\ ~cancelled
    /\ cancelled' = TRUE
    /\ UNCHANGED <<sch_pc, probes, ticks, late_attempts>>
    /\ UNCHANGED <<ckVars, locVars, prVars, orchVars, edVars, wsVars, moreVars>>

\* check_link: client.get(url).send() is called, for the first time or
\* after the 1-second sleep.
ProbeSend(i) ==
    /\ sch_pc = "join"
    /\ probes[i].st \in {"spawned", "sleeping"}
    /\ probes' = [probes EXCEPT ![i].st = "sending"]
    /\ late_attempts' = IF cancelled THEN late_attempts + 1 ELSE late_attempts
    /\ UNCHANGED <<sch_pc, cancelled, ticks>>
    /\ UNCHANGED <<ckVars, locVars, prVars, orchVars, edVars, wsVars, moreVars>>

\* check_link: the attempt ends with a response (the call returns) or with
\* a transport error (the call returns on the last attempt, sleeps otherwise).
ProbeSettle(i) ==
    /\ sch_pc = "join"
    /\ probes[i].st = "sending"
    /\ \E responded \in BOOLEAN :
         probes' = [probes EXCEPT ![i] =
                       IF responded \/ IsLastAttempt(probes[i].attempts)
                       THEN Probe("done", probes[i].attempts)
                       ELSE Probe("sleeping", AfterError(probes[i].attempts))]
    /\ UNCHANGED <<sch_pc, cancelled, ticks, late_attempts>>
    /\ UNCHANGED <<ckVars, locVars, prVars, orchVars, edVars, wsVars, moreVars>>

\* `for handle in handles { handle.await }` has awaited every task.
SchJoin ==
    /\ sch_pc = "join"
    /\ \A i \in 1..Len(probes) : probes[i].st = "done"
    /\ sch_pc' = "select"
    /\ probes' = <<>>
    /\ UNCHANGED <<cancelled, ticks, late_attempts>>
    /\ UNCHANGED <<ckVars, locVars, prVars, orchVars, edVars, wsVars, moreVars>>

NextSched ==
    \/ SchTick
    \/ SchCancelled
    \/ Cancel
    \/ \E i \in 1..Len(probes) : ProbeSend(i)
    \/ \E i \in 1..Len(probes) : ProbeSettle(i)
    \/ SchJoin

SpecSched == InitSched /\ [][NextSched]_vars

-----------------------------------------------------------------------------
(* Properties of check_link (SpecCheck). *)

Returned == ck_pc = "done"

GotResponse == resp.kind = "http"

\* The host test as the documentation words it: github.com itself or a
\* name ending in ".github.com".
ForgeHost(u) ==
    LET p == UrlParse(u)
    IN  p.ok /\ (p.host = GITHUB_COM \/ HasSuffix(p.host, DOT_GITHUB_COM))

\* C4: check_link makes at most 3 HTTP attempts and returns one of the four
\* outcomes; a transport error on attempt 1 or 2 is followed by one 1-second
\* sleep and then the next attempt, and a transport error on attempt 3
\* returns Invalid("Request error: ...") with no further attempt or sleep.
C4_ThreeAttempts ==
    /\ sends <= 3
    /\ sends = errors + responses
    /\ Returned => result.tag \in ResultTags
    /\ ~Returned => result = NoResult
    /\ ck_pc = "sleep" =>
          /\ resp = TransportError
          /\ errors = sends /\ sends \in {1, 2}
          /\ sleeps = errors - 1
    /\ ck_pc = "send" => sends = errors /\ sleeps = errors /\ sends \in {0, 1, 2}
    /\ (Returned /\ resp = TransportError) =>
          /\ sends = 3 /\ errors = 3 /\ sleeps = 2
          /\ result = Invalid("Request error", <<>>)
    /\ Returned => sleeps = errors - (IF resp = TransportError THEN 1 ELSE 0)

\* C4 witness: two transport errors, two sleeps, then a response on the
\* third attempt.
C4_Witness ==
    /\ Returned /\ sends = 3 /\ errors = 2 /\ sleeps = 2
    /\ GotResponse /\ result.tag = "Redirect"

\* C5 as stated: three transport errors return Invalid("Max retries
\* exceeded").
C5_MaxRetriesExceeded ==
    (Returned /\ errors = 3) => result = Invalid("Max retries exceeded", <<>>)

\* C5 amended: three transport errors return Invalid("Request error: ..."),
\* and no call of check_link returns Invalid("Max retries exceeded").
C5_RequestErrorOnExhaustion ==
    /\ (Returned /\ errors = 3) => result = Invalid("Request error", <<>>)
    /\ result.reason # "Max retries exceeded"

\* C5 witness: the third attempt failed with a transport error.
C5_Witness ==
    /\ Returned /\ errors = 3 /\ responses = 0
    /\ result = Invalid("Request error", <<>>)

\* C6: an HTTP response ends the probe on that attempt; a status that is
\* not 2xx, not 3xx and not a forge 404 gives Invalid("HTTP status code: S");
\* every attempt before the last one ended in a transport error.
C6_ResponseEndsProbe ==
    /\ GotResponse => Returned /\ responses = 1 /\ sends = errors + 1
    /\ responses <= 1
    /\ ~Returned => responses = 0
    /\ (GotResponse
          /\ resp.status \notin 200..299
          /\ resp.status \notin 300..399
          /\ ~(resp.status = 404 /\ ForgeHost(url)))
         => result = InvalidStatus(resp.status)

\* C6 witness: a 500 after one transport error.
C6_Witness ==
    /\ Returned /\ GotResponse /\ resp.status = 500 /\ errors = 1 /\ sends = 2
    /\ result = InvalidStatus(500)

\* C7 as stated: on a 3xx, Redirect(location) exactly when a Location header
\* is present and the redirect is not trivial, Valid otherwise.
C7_RedirectIffPresentNonTrivial ==
    (Returned /\ GotResponse /\ resp.status \in 300..399) =>
        result = IF resp.location.present
                    /\ ~is_trivial_redirect(url, resp.location.bytes)
                 THEN Redirect(resp.location.bytes)
                 ELSE Valid

\* C7 amended: on a 3xx, Redirect(location) exactly when a Location header
\* is present, its value is readable as a string (visible ASCII only) and
\* the redirect is not trivial; Valid when the header is absent, unreadable
\* or the redirect is trivial. The payload is the header value unchanged.
C7_RedirectIffReadableNonTrivial ==
    (Returned /\ GotResponse /\ resp.status \in 300..399) =>
        result = IF /\ resp.location.present
                    /\ \A i \in 1..Len(resp.location.bytes) :
                          resp.location.bytes[i] # OBS
                    /\ ~is_trivial_redirect(url, resp.location.bytes)
                 THEN Redirect(resp.location.bytes)
                 ELSE Valid

\* C7 witness: a 3xx whose Location value holds a byte outside visible
\* ASCII is classified Valid.
C7_Witness ==
    /\ Returned /\ GotResponse /\ resp.status \in 300..399
    /\ resp.location.present
    /\ \E i \in 1..Len(resp.location.bytes) : resp.location.bytes[i] = OBS
    /\ ~is_trivial_redirect(url, resp.location.bytes)
    /\ result = Valid

\* C8: handle_github_404 is called iff the status is 404 and the host is
\* github.com or ends with ".github.com"; a 404 from any other host gives
\* Invalid("HTTP status code: 404") and no repository is cloned.
C8_ResolverIffForge404 ==
    /\ resolver_calls <= 1
    /\ ~GotResponse => resolver_calls = 0 /\ clones = 0
    /\ GotResponse =>
          /\ resolver_calls = 1 <=> (resp.status = 404 /\ ForgeHost(url))
          /\ (resp.status = 404 /\ ~ForgeHost(url)) =>
                result = InvalidStatus(404) /\ clones = 0
          /\ clones <= resolver_calls

\* C8 witness: a 404 from notgithub.com.
C8_Witness ==
    /\ Returned /\ url = UrlNotGithub /\ resp.status = 404
    /\ result = InvalidStatus(404) /\ resolver_calls = 0 /\ clones = 0

-----------------------------------------------------------------------------
(* Properties of find_current_location (SpecLoc). *)

\* C10: the loop of find_current_location terminates and runs at most as
\* many iterations as the repository has commits: the count never exceeds
\* the number of commits, and a loop that has run that many iterations has
\* returned.
C10_IterationsBounded ==
    /\ loc_iters <= Len(history)
    /\ loc_pc = "loop" => loc_iters < Len(history)

\* C10 witness: a history with a merge commit and a commit that renames two
\* paths at once, in which the loop followed a rename and returned.
C10_Witness ==
    /\ loc_pc = "done" /\ loc_result.kind = "found" /\ loc_iters >= 2
    /\ \E i \in 1..Len(history) : history[i].parent_count = 2
    /\ \E i \in 1..Len(history) :
          /\ history[i].parent_count = 1
          /\ Cardinality(RenamedDeltas(history, i)) >= 2

-----------------------------------------------------------------------------
(* Properties of create_fix_pr (SpecPr). *)

\* The place of an operation in the documented order of steps.
StepRank(op) ==
    CASE op \in {"create_branch", "checkout_branch"} -> 1
      [] op = "write" -> 2
      [] op \in {"add_file", "commit"} -> 3
      [] op = "push" -> 4
      [] OTHER -> 5

StepAt(op) == {i \in 1..Len(steps) : steps[i].op = op}

PrErrorTags == {"Git", "GitHub", "File", "Config"}

\* C1: the operations of create_fix_pr happen in the order branch
\* create + checkout, edits, staging + commit, push, pull request; each one
\* follows only successful operations, each later step has its
\* predecessor step before it, and a failed operation is the last one,
\* after which create_fix_pr has returned a PrError.
C1_StepsInOrder ==
    /\ \A i, j \in 1..Len(steps) :
          i < j => /\ steps[i].ok
                   /\ StepRank(steps[i].op) <= StepRank(steps[j].op)
                   /\ steps[i].op = "commit" => steps[j].op # "add_file"
    /\ \A op \in {"create_branch", "checkout_branch", "commit", "push", "create_pr"} :
          Cardinality(StepAt(op)) <= 1
    /\ \A j \in 1..Len(steps) :
          /\ steps[j].op = "create_branch" => j = 1
          /\ steps[j].op = "checkout_branch" => j = 2
          /\ steps[j].op = "write" => StepAt("checkout_branch") # {}
          /\ steps[j].op \in {"add_file", "commit"} => StepAt("write") # {}
          /\ steps[j].op = "commit" => StepAt("add_file") # {}
          /\ steps[j].op = "push" => StepAt("commit") # {}
          /\ steps[j].op = "create_pr" => StepAt("push") # {}
    /\ (\E i \in 1..Len(steps) : ~steps[i].ok) =>
          pr_pc = "done" /\ pr_result.tag \in PrErrorTags
    /\ pr_pc = "done" => pr_result.tag \in PrErrorTags \cup {"Ok"}
    /\ pr_result.tag = "Ok" =>
          /\ pr_pc = "done"
          /\ steps[Len(steps)] = Step("create_pr", branch_name, TRUE)

\* C1 witness: a call that went through all the steps, two edits included,
\* and returned the pull request's URL.
C1_Witness ==
    /\ pr_pc = "done" /\ pr_result.tag = "Ok"
    /\ Cardinality(StepAt("write")) = 2
    /\ \A op \in {"create_branch", "checkout_branch", "write", "add_file", "commit",
                  "push", "create_pr"} : StepAt(op) # {}

\* C2: when the branch was created and no edit applies (fixes is empty or
\* every fix names a file absent from the working tree), create_fix_pr
\* returns Err(PrError::Config("No changes to create PR")) and nothing is
\* written, staged, committed, pushed or requested from the forge.
C2_NoChangesNoPr ==
    (pr_pc # "idle"
       /\ \A i \in 1..Len(fixes) : ~files[fixes[i].file_path].exists) =>
        /\ \A i \in 1..Len(steps) :
              steps[i].op \in {"create_branch", "checkout_branch"}
        /\ (pr_pc = "done" /\ Len(steps) = 2 /\ steps[2].ok) =>
              pr_result = PrErr("Config", "No changes to create PR")
        /\ pr_result.tag # "Ok"
        /\ pr_pc \in {"create_branch", "apply_fixes", "done"}

\* C2 witness: two fixes, both for a file that does not exist, and the
\* call has returned the configuration error.
C2_Witness ==
    /\ pr_pc = "done" /\ Len(fixes) = 2
    /\ \A i \in 1..Len(fixes) : fixes[i].file_path = GONE
    /\ pr_result = PrErr("Config", "No changes to create PR")
    /\ Len(steps) = 2

-----------------------------------------------------------------------------
(* Properties of the orchestrations (SpecOrch). *)

\* C3: in each orchestration at most 10 check_link calls have started and
\* not yet returned.
C3_AtMostTenInFlight == InFlight <= 10

-----------------------------------------------------------------------------
(* Properties of find_current_location: where a lookup ends (SpecLoc). *)

LocReturned == loc_pc = "done"

\* Commit i has exactly one parent and its diff, after rename detection,
\* holds the Renamed delta p -> q.
RenamedIn(h, i, p, q) == h[i].parent_count = 1 /\ <<p, q>> \in RenamedDeltas(h, i)

\* The most recent commit with one parent that changes path p, 0 if none.
LastTouch(h, p) ==
    LET hits == {i \in 1..Len(h) : /\ h[i].parent_count = 1
                                   /\ h[i].tree[p] # h[h[i].parent].tree[p]}
    IN  IF hits = {} THEN 0 ELSE Min(hits)

\* The paths at HEAD that p reaches through a chain of renames made by
\* successive commits (each more recent than the one before, all more
\* recent than commit `limit`), every path before the last absent at HEAD.
RECURSIVE ChainEnds(_, _, _)
ChainEnds(h, p, limit) ==
    IF h[1].tree[p] # 0 THEN {p}
    ELSE UNION {ChainEnds(h, q, i) :
                  <<i, q>> \in {iq \in (1..(limit - 1)) \X Paths :
                                   RenamedIn(h, iq[1], p, iq[2])}}

\* The same, where each renaming commit is also the most recent commit
\* with one parent that changes the path it renames.
RECURSIVE LatestChainEnds(_, _, _)
LatestChainEnds(h, p, limit) ==
    IF h[1].tree[p] # 0 THEN {p}
    ELSE UNION {LatestChainEnds(h, q, i) :
                  <<i, q>> \in {iq \in (1..(limit - 1)) \X Paths :
                                   /\ iq[1] = LastTouch(h, p)
                                   /\ RenamedIn(h, iq[1], p, iq[2])}}

NeverAppears(h, p) == \A i \in 1..Len(h) : h[i].tree[p] = 0

\* The most recent single-parent commit that changes p removed it and its
\* diff holds no rename of it.
DeletedWithoutRename(h, p) ==
    LET i == LastTouch(h, p)
    IN  /\ i # 0
        /\ h[i].tree[p] = 0
        /\ \A q \in Paths : <<p, q>> \notin RenamedDeltas(h, i)

-----------------------------------------------------------------------------
(* Properties of replace_line_content (SpecEdit) and of a failing edit     *)
(* (SpecPr).                                                               *)

\* The first call returned Ok.
Edited == ed_pc \in {"second", "done"} /\ ed_out1.ok

\* The string holds no "\n" and no "\r".
NoBreak(s) == \A i \in 1..Len(s) : s[i] \notin {LF, CR}

\* The lines of a content with their terminators (split after each "\n").
RECURSIVE RawLines(_)
RawLines(content) ==
    IF content = <<>> THEN <<>>
    ELSE LET i == FindFrom(content, 1, {LF})
             j == IF i > Len(content) THEN Len(content) ELSE i
         IN  <<SubSeq(content, 1, j)>> \o RawLines(SubSeq(content, j + 1, Len(content)))

\* The first occurrence of `from` replaced by `to`, the rest kept.
RECURSIVE ReplaceFirst(_, _, _)
ReplaceFirst(s, from, to) ==
    IF HasPrefix(s, from) THEN to \o DropPrefix(s, Len(from))
    ELSE IF s = <<>> THEN <<>>
    ELSE <<s[1]>> \o ReplaceFirst(Tail(s), from, to)

\* C13: an edit with a replacement free of line breaks leaves every line
\* but line_number, terminator included, and the trailing newline as they
\* were.
C13_OtherLinesIdentical ==
    (Edited /\ NoBreak(ed_in.new_url)) =>
        LET before == RawLines(ed_in.content)
            after == RawLines(ed_out1.content)
        IN  /\ Len(after) = Len(before)
            /\ \A k \in 1..Len(before) :
                 k # ed_in.line_number => after[k] = before[k]
            /\ HasSuffix(ed_out1.content, <<LF>>) <=> HasSuffix(ed_in.content, <<LF>>)

\* C14: only the first occurrence of old_url on the line is replaced.
C14_FirstOccurrenceOnly ==
    (Edited /\ NoBreak(ed_in.new_url)) =>
        Lines(ed_out1.content)[ed_in.line_number] =
            ReplaceFirst(Lines(ed_in.content)[ed_in.line_number],
                         ed_in.old_url, ed_in.new_url)

NoStrayCR(content) ==
    \A k \in 1..Len(Lines(content)) : ~HasSuffix(Lines(content)[k], <<CR>>)

InvalidEdit(fix, content) ==
    \/ fix.line_number = 0
    \/ fix.line_number > Len(Lines(content))
    \/ ~Contains(Lines(content)[fix.line_number], fix.old_content)

\* C15: the pass of apply_fixes over an invalid edit of an existing file
\* writes nothing, and create_fix_pr returns a PrError::File, which stays
\* its result.
C15_InvalidEditFails ==
    [][/\ (/\ pr_pc = "apply_fixes" /\ fix_idx <= Len(fixes)
           /\ files[fixes[fix_idx].file_path].exists
           /\ InvalidEdit(fixes[fix_idx], files[fixes[fix_idx].file_path].content))
          => /\ pr_pc' = "done"
             /\ pr_result'.tag = "File"
             /\ pr_result'.text \in {"Invalid line number", "Old URL not found in line",
                                     "Failed to read file"}
             /\ files' = files /\ steps' = steps /\ changes' = changes
       /\ pr_pc = "done" => pr_result' = pr_result]_vars

\* C15 witness: create_fix_pr returned the error of a second edit that
\* names a line past the end, after the first edit was written.
C15_Witness ==
    /\ pr_pc = "done"
    /\ pr_result = PrErr("File", "Invalid line number")
    /\ Len(fixes) = 2 /\ fix_idx = 3 /\ Len(changes) = 1
    /\ fixes[2].file_path = README /\ fixes[2].line_number = 3
    /\ Cardinality({i \in 1..Len(steps) : steps[i].op = "write"}) = 1

-----------------------------------------------------------------------------
(* Properties of the branches of a pull request (SpecPr). *)

-----------------------------------------------------------------------------
(* Properties of the workspaces (SpecWs). *)

\* C18: no two live holders have the same workspace path, and the
\* directory of a live holder is the one it created.
C18_WorkspaceOwnedByOne ==
    /\ \A g, h \in Holders : (g # h /\ Live(g) /\ Live(h)) => ws_path[g] # ws_path[h]
    /\ \A h \in Holders : Live(h) => [path |-> ws_path[h], by |-> h] \in ws_dirs

-----------------------------------------------------------------------------
(* Properties of the cancellation of check_repository_links (SpecSched). *)

\* C20: no HTTP attempt, a retry or the attempt of a new tick, begins after
\* the token was cancelled.
C20_NoAttemptAfterCancel == late_attempts = 0

-----------------------------------------------------------------------------
(* check_links and stream_link_checks over the extracted links.             *)

MaxSvcLinks == 3

\* LinkInfo { url, file_path, line_number }
LinkInfo(link_url, file_path, line_number) ==
    [url |-> link_url, file_path |-> file_path, line_number |-> line_number]

\* InvalidLinkInfo { url, file_path, line_number }
InvalidLinkInfo(link) ==
    [url |-> link.url, file_path |-> link.file_path, line_number |-> link.line_number]

\* What an extraction can hand over: links with pairwise different URLs,
\* each found in some file on some line.
SvcUrls == {UrlDocs, UrlForgeFile, UrlNotGithub}

SvcLinkInfos == {LinkInfo(u, f, n) : u \in SvcUrls, f \in WorkPaths, n \in {1, MaxLine}}

SvcLinkLists ==
    {ls \in UNION {[1..n -> SvcLinkInfos] : n \in 0..MaxSvcLinks} :
        \A i, j \in 1..Len(ls) : i # j => ls[i].url # ls[j].url}

\* What check_link can return for a link.
SvcOutcomes == {Valid, InvalidStatus(404), Redirect(NewUrl), GitHubFileMoved(PB)}

\* The counter of an outcome: `match &result { Valid => increment_valid() ..`
increment_kind_no_moved(c, res) ==
    CASE res.tag = "Valid" -> [c EXCEPT !.valid = @ + 1]
      [] res.tag = "Invalid" -> [c EXCEPT !.invalid = @ + 1]
      [] res.tag = "Redirect" -> [c EXCEPT !.redirect = @ + 1]
      [] OTHER -> c

increment_kind(c, res) ==
    CASE res.tag = "Valid" -> [c EXCEPT !.valid = @ + 1]
      [] res.tag = "Invalid" -> [c EXCEPT !.invalid = @ + 1]
      [] res.tag = "Redirect" -> [c EXCEPT !.redirect = @ + 1]
      [] res.tag = "GitHubFileMoved" -> [c EXCEPT !.moved = @ + 1]

\* counters.increment_total()
increment_total(c) == [c EXCEPT !.total = @ + 1]

\* `!matches!(result, LinkCheckResult::Valid)`
NotValid_nor_redirect(res) == res.tag \notin {"Valid", "Redirect"}

NotValid(res) == res.tag # "Valid"

Pending == {i \in 1..Len(svc_links) : svc_state[i] = "pending"}

Queued == {i \in 1..Len(svc_links) : svc_state[i] = "queued"}

InitSvc ==
    /\ OldIdle /\ ExIdle /\ FnIdle /\ MailIdle
    /\ svc_pc \in {"cl_extract", "st_extract", "sse_extract"}
    /\ svc_links = <<>>
    /\ svc_state = <<>>
    /\ svc_results = <<>>
    /\ counters = NoCounters
    /\ invalid_links = <<>>
    /\ sse_events = <<>>

\* `let links = match result { Ok(links) => links, ..`
SvcExtracted ==
    /\ svc_pc \in {"cl_extract", "st_extract"}
    /\ \E ls \in SvcLinkLists :
        /\ svc_links' = ls
        /\ svc_state' = [i \in 1..Len(ls) |-> "queued"]
        /\ svc_results' = [i \in 1..Len(ls) |-> NoResult]
    /\ svc_pc' = IF svc_pc = "cl_extract" THEN "cl_loop" ELSE "st_loop"
    /\ UNCHANGED <<counters, invalid_links>>
    /\ UNCHANGED sse_events
    /\ UNCHANGED <<oldVars, exVars, fnVars, mailVars>>

\* `Err(e) => { .. return Err(e.to_string()) }`
SvcExtractFailed ==
    /\ svc_pc \in {"cl_extract", "st_extract"}
    /\ svc_pc' = "erred"
    /\ UNCHANGED <<svc_links, svc_state, svc_results, counters, invalid_links>>
    /\ UNCHANGED sse_events
    /\ UNCHANGED <<oldVars, exVars, fnVars, mailVars>>

\* check_links: `for link in links { link_checker.check_link(&link.url).await`
SvcCheckLinksProbe ==
    /\ svc_pc = "cl_loop"
    /\ Pending = {}
    /\ Queued # {}
    /\ svc_state' = [svc_state EXCEPT ![Min(Queued)] = "pending"]
    /\ UNCHANGED <<svc_pc, svc_links, svc_results, counters, invalid_links>>
    /\ UNCHANGED sse_events
    /\ UNCHANGED <<oldVars, exVars, fnVars, mailVars>>

\* check_links: check_link returned; the rest of the loop body.
SvcCheckLinksReturn ==
    /\ svc_pc = "cl_loop"
    /\ \E i \in Pending, res \in SvcOutcomes :
        /\ svc_results' = [svc_results EXCEPT ![i] = res]
        /\ svc_state' = [svc_state EXCEPT ![i] = "done"]
        /\ counters' = increment_kind(increment_total(counters), res)
        /\ invalid_links' =
              IF NotValid(res)
              THEN Append(invalid_links, InvalidLinkInfo(svc_links[i]))
              ELSE invalid_links
    /\ UNCHANGED <<svc_pc, svc_links>>
    /\ UNCHANGED sse_events
    /\ UNCHANGED <<oldVars, exVars, fnVars, mailVars>>

\* check_links: the loop ends, `Ok(invalid_links)`.
SvcCheckLinksEnd ==
    /\ svc_pc = "cl_loop"
    /\ Pending = {} /\ Queued = {}
    /\ svc_pc' = "cl_done"
    /\ UNCHANGED <<svc_links, svc_state, svc_results, counters, invalid_links>>
    /\ UNCHANGED sse_events
    /\ UNCHANGED <<oldVars, exVars, fnVars, mailVars>>

\* stream_link_checks: buffer_unordered(10) polls the next future of the
\* stream, which calls check_link.
SvcStreamPoll ==
    /\ svc_pc = "st_loop"
    /\ Cardinality(Pending) < BUFFER_UNORDERED
    /\ Queued # {}
    /\ svc_state' = [svc_state EXCEPT ![Min(Queued)] = "pending"]
    /\ UNCHANGED <<svc_pc, svc_links, svc_results, counters, invalid_links>>
    /\ UNCHANGED sse_events
    /\ UNCHANGED <<oldVars, exVars, fnVars, mailVars>>

\* stream_link_checks: the check_link of any pending future returns and the
\* future runs to its end: increment_total, then the counter of the kind.
SvcStreamReturn ==
    /\ svc_pc = "st_loop"
    /\ \E i \in Pending, res \in SvcOutcomes :
        /\ svc_results' = [svc_results EXCEPT ![i] = res]
        /\ svc_state' = [svc_state EXCEPT ![i] = "done"]
        /\ counters' = increment_kind(increment_total(counters), res)
    /\ UNCHANGED <<svc_pc, svc_links, invalid_links>>
    /\ UNCHANGED sse_events
    /\ UNCHANGED <<oldVars, exVars, fnVars, mailVars>>

\* stream_link_checks: for_each returns, `Ok(counters.to_summary())`.
SvcStreamEnd ==
    /\ svc_pc = "st_loop"
    /\ Pending = {} /\ Queued = {}
    /\ svc_pc' = "st_done"
    /\ UNCHANGED <<svc_links, svc_state, svc_results, counters, invalid_links>>
    /\ UNCHANGED sse_events
    /\ UNCHANGED <<oldVars, exVars, fnVars, mailVars>>

\* The `status` of a LinkCheckEvent.
StatusOf(res) ==
    CASE res.tag = "Valid" -> "valid"
      [] res.tag = "Invalid" -> "invalid"
      [] res.tag = "Redirect" -> "redirect"
      [] res.tag = "GitHubFileMoved" -> "file_moved"

\* LinkCheckEvent { url, file_path, line_number, status, message } as the
\* JSON data of an event; the message is the text the outcome carries.
LinkCheckEvent(link, res) ==
    [kind |-> "link", url |-> link.url, file_path |-> link.file_path,
     line_number |-> link.line_number, status |-> StatusOf(res),
     message |-> IF res.tag = "Valid" THEN None ELSE Some(res.text)]

\* A summary made when the stream is built, before any link is checked.
to_summary_of_none(c) ==
    [kind |-> "summary", total |-> 0, valid |-> 0, invalid |-> 0, redirect |-> 0,
     moved |-> 0]

\* counters.to_summary() as the JSON data of an event
to_summary(c) ==
    [kind |-> "summary", total |-> c.total, valid |-> c.valid, invalid |-> c.invalid,
     redirect |-> c.redirect, moved |-> c.moved]

\* stream_link_checks of link_checker/sse.rs, `Ok(links) =>`: the stream is
\* built over the extracted links; nothing runs before it is polled.
SseExtracted ==
    /\ svc_pc = "sse_extract"
    /\ \E ls \in SvcLinkLists :
        /\ svc_links' = ls
        /\ svc_state' = [i \in 1..Len(ls) |-> "queued"]
        /\ svc_results' = [i \in 1..Len(ls) |-> NoResult]
    /\ svc_pc' = "sse_loop"
    /\ UNCHANGED <<counters, invalid_links, sse_events>>
    /\ UNCHANGED <<oldVars, exVars, fnVars, mailVars>>

\* `Err(e) =>`: the stream is the one event that carries the error.
SseExtractFailed ==
    /\ svc_pc = "sse_extract"
    /\ svc_pc' = "sse_error"
    /\ UNCHANGED <<svc_links, svc_state, svc_results, counters, invalid_links,
                   sse_events>>
    /\ UNCHANGED <<oldVars, exVars, fnVars, mailVars>>

\* The stream of the Err branch yields its event and ends.
SseErrorEvent ==
    /\ svc_pc = "sse_error"
    /\ sse_events' = Append(sse_events, [kind |-> "error"])
    /\ svc_pc' = "sse_end"
    /\ UNCHANGED <<svc_links, svc_state, svc_results, counters, invalid_links>>
    /\ UNCHANGED <<oldVars, exVars, fnVars, mailVars>>

\* buffer_unordered(10) takes the next future of the mapped stream and polls
\* it, which calls check_link.
SsePoll ==
    /\ svc_pc = "sse_loop"
    /\ Cardinality(Pending) < BUFFER_UNORDERED
    /\ Queued # {}
    /\ svc_state' = [svc_state EXCEPT ![Min(Queued)] = "pending"]
    /\ UNCHANGED <<svc_pc, svc_links, svc_results, counters, invalid_links, sse_events>>
    /\ UNCHANGED <<oldVars, exVars, fnVars, mailVars>>

\* The check_link of a pending future returns; the future counts the
\* outcome, makes its event and completes, and the stream yields the event.
SseLinkEvent ==
    /\ svc_pc = "sse_loop"
    /\ \E i \in Pending, res \in SvcOutcomes :
        /\ svc_results' = [svc_results EXCEPT ![i] = res]
        /\ svc_state' = [svc_state EXCEPT ![i] = "done"]
        /\ counters' = increment_kind(increment_total(counters), res)
        /\ sse_events' = Append(sse_events, LinkCheckEvent(svc_links[i], res))
    /\ UNCHANGED <<svc_pc, svc_links, invalid_links>>
    /\ UNCHANGED <<oldVars, exVars, fnVars, mailVars>>

\* The buffered stream is exhausted; `chain` polls stream::once, whose
\* future reads the counters and yields the summary; the stream ends.
SseSummaryEvent ==
    /\ svc_pc = "sse_loop"
    /\ Pending = {} /\ Queued = {}
    /\ sse_events' = Append(sse_events, to_summary(counters))
    /\ svc_pc' = "sse_end"
    /\ UNCHANGED <<svc_links, svc_state, svc_results, counters, invalid_links>>
    /\ UNCHANGED <<oldVars, exVars, fnVars, mailVars>>

NextSvc ==
    \/ SvcExtracted
    \/ SvcExtractFailed
    \/ SvcCheckLinksProbe
    \/ SvcCheckLinksReturn
    \/ SvcCheckLinksEnd
    \/ SvcStreamPoll
    \/ SvcStreamReturn
    \/ SvcStreamEnd
    \/ SseExtracted
    \/ SseExtractFailed
    \/ SseErrorEvent
    \/ SsePoll
    \/ SseLinkEvent
    \/ SseSummaryEvent

SpecSvc == InitSvc /\ [][NextSvc]_vars

-----------------------------------------------------------------------------
(* Claims on check_links and stream_link_checks *)

\* The links whose check returned something else than Valid.
NotValidLinks == {i \in 1..Len(svc_links) : svc_results[i].tag \in ResultTags \ {"Valid"}}

\* The records of the list made for link i.
RecordsOf(i) == {k \in 1..Len(invalid_links) : invalid_links[k].url = svc_links[i].url}

\* C21: when check_links returns, its list holds exactly one record for each
\* extracted link whose outcome is not Valid and none for a Valid one, the
\* record carries the link's url, file_path and line_number, and the list is
\* as long as the invalid, redirect and moved counts together.
C21_OneRecordPerNotValidLink ==
    svc_pc = "cl_done" =>
        /\ \A i \in 1..Len(svc_links) :
              IF i \in NotValidLinks
              THEN /\ Cardinality(RecordsOf(i)) = 1
                   /\ \A k \in RecordsOf(i) :
                         /\ invalid_links[k].url = svc_links[i].url
                         /\ invalid_links[k].file_path = svc_links[i].file_path
                         /\ invalid_links[k].line_number = svc_links[i].line_number
              ELSE RecordsOf(i) = {}
        /\ \A k \in 1..Len(invalid_links) :
              \E i \in NotValidLinks : k \in RecordsOf(i)
        /\ Len(invalid_links) = counters.invalid + counters.redirect + counters.moved

C21_Witness ==
    /\ svc_pc = "cl_done"
    /\ Len(svc_links) = 3
    /\ \E i, j, k \in 1..Len(svc_links) :
          /\ svc_results[i].tag = "Valid"
          /\ svc_results[j].tag = "Redirect"
          /\ svc_results[k].tag = "GitHubFileMoved"
    /\ Len(invalid_links) = 2

\* The suggestion of a record: the field `suggestion` when the record has one.
Suggestion(rec) == IF "suggestion" \in DOMAIN rec THEN rec.suggestion ELSE None

\* C22: every record check_links returns for a link whose outcome is
\* GitHubFileMoved(new_path) carries that new path as its suggestion, and
\* the records of the other outcomes carry no suggestion.
C22_MovedRecordCarriesNewPath ==
    svc_pc = "cl_done" =>
        \A i \in NotValidLinks : \A k \in RecordsOf(i) :
            Suggestion(invalid_links[k]) =
                IF svc_results[i].tag = "GitHubFileMoved"
                THEN Some(svc_results[i].text)
                ELSE None

\* C23: when an orchestration run completes, total is the sum of the four
\* kinds and the number of extracted links, in check_links and in
\* stream_link_checks with its probes completing in any order.
C23_CountsAddUp ==
    svc_pc \in {"cl_done", "st_done"} =>
        /\ counters.total =
              counters.valid + counters.invalid + counters.redirect + counters.moved
        /\ counters.total = Len(svc_links)

\* stream_link_checks completed with probes that returned out of order, one
\* of them with a moved file.
C23_Witness ==
    /\ svc_pc = "st_done"
    /\ Len(svc_links) = 3
    /\ counters.moved >= 1 /\ counters.valid >= 1
    /\ counters.total = 3

-----------------------------------------------------------------------------
(* extract_links_from_repo_url: the links of the files of a tree.           *)

MaxMatches == 2

MaxExLines == 2

MaxFiles == 2

\* str::trim_end_matches(&[..]): the trailing characters of the set go.
RECURSIVE TrimEndMatchesIn(_, _)
TrimEndMatchesIn(s, cs) ==
    IF Len(s) > 0 /\ s[Len(s)] \in cs
    THEN TrimEndMatchesIn(SubSeq(s, 1, Len(s) - 1), cs)
    ELSE s

LOCALHOST == <<"l", "o", "c", "a", "l", "h", "o", "s", "t">>

\* `(?:\d{1,3}\.){3}\d{1,3}` matches at the start of s.
DottedQuadAt(s) ==
    \E a, b, c \in 1..3 :
        /\ Len(s) >= a + b + c + 4
        /\ \A k \in (1..a) \cup ((a + 2)..(a + b + 1))
                 \cup ((a + b + 3)..(a + b + c + 2)) : s[k] \in Digits
        /\ s[a + 1] = "." /\ s[a + b + 2] = "." /\ s[a + b + c + 3] = "."
        /\ s[a + b + c + 4] \in Digits

\* REGEX_IP_ADDRESS.is_match(s): the pattern is found anywhere in s.
IsIpAddress(s) ==
    \E k \in {n \in 0..(Len(s) - 1) : s[n + 1] = "h"} :
        LET t == DropPrefix(s, k)
            h == IF HasPrefix(t, HTTPS) THEN DropPrefix(t, Len(HTTPS))
                 ELSE IF HasPrefix(t, HTTP) THEN DropPrefix(t, Len(HTTP))
                 ELSE <<>>
        IN  HasPrefix(h, LOCALHOST) \/ DottedQuadAt(h)

\* impl PartialEq for LinkInfo: `self.url == other.url`
LinkInfoEq_all_fields(a, b) == a = b

LinkInfoEq(a, b) == a.url = b.url

\* HashSet::insert: a value equal to a member is not added.
HashSetInsert(set, value) ==
    IF \E m \in set : LinkInfoEq(m, value) THEN set ELSE set \cup {value}

\* An extend that stores the incoming value in place of an equal member.
HashSetExtend_replace(set, other) ==
    {m \in set : \A v \in other : ~LinkInfoEq(m, v)} \cup other

\* HashSet::extend(other): every value of `other` is inserted.  `other` is
\* a set with no two equal members, so the order of insertion is immaterial.
HashSetExtend(set, other) ==
    set \cup {v \in other : \A m \in set : ~LinkInfoEq(m, v)}

\* The LinkInfo made of a match of REGEX_DOMAIN.
LinkOfMatch(mat, file_path, line_number) ==
    LinkInfo(TrimEndMatchesIn(mat, {")", ">", ".", ",", ";"}), file_path, line_number)

\* find_link_in_content, from match j of line i on, `result` being the set
\* built so far.  lines[i] holds the matches of REGEX_DOMAIN in line i.
RECURSIVE FindLinksFrom(_, _, _, _, _)
FindLinksFrom(lines, file_path, i, j, res) ==
    IF i > Len(lines) THEN res
    ELSE IF j > Len(lines[i]) THEN FindLinksFrom(lines, file_path, i + 1, 1, res)
    ELSE IF IsIpAddress(lines[i][j])
    THEN FindLinksFrom(lines, file_path, i, j + 1, res)
    ELSE FindLinksFrom(lines, file_path, i, j + 1,
                       HashSetInsert(res, LinkOfMatch(lines[i][j], file_path, i)))

find_link_in_content(lines, file_path) == FindLinksFrom(lines, file_path, 1, 1, {})

\* Every LinkInfo find_link_in_content passes to insert.
Inserted(lines, file_path) ==
    UNION {{LinkOfMatch(lines[i][j], file_path, i) :
               j \in {k \in 1..Len(lines[i]) : ~IsIpAddress(lines[i][k])}} :
           i \in 1..Len(lines)}

\* What REGEX_DOMAIN finds in the lines of the sample files.
UrlIp == HTTP \o <<"1", ".", "2", ".", "3", ".", "4">> \o DOCS

ExMatches == {UrlDocs, UrlDocs \o <<")">>, UrlForgeRepo, UrlIp}

ExLines == UNION {[1..n -> ExMatches] : n \in 0..MaxMatches}

ExContents == UNION {[1..n -> ExLines] : n \in 1..MaxExLines}

ExPaths == <<README, "docs/a.md", "docs/b.md", "docs/c.md">>

\* A tree entry: a blob with UTF-8 content, or one without.
Blob(file_path, utf8, lines) == [file_path |-> file_path, utf8 |-> utf8, lines |-> lines]

ExBlobs(file_path) ==
    {Blob(file_path, TRUE, c) : c \in ExContents} \cup {Blob(file_path, FALSE, <<>>)}

InitExtract ==
    /\ OldIdle /\ SvcIdle /\ FnIdle /\ MailIdle
    /\ ex_pc = "clone"
    /\ ex_files = <<>>
    /\ all_links = {}
    /\ ex_seen = {}

\* RepoManager::clone_repo succeeded; the walk of the head tree begins.
ExCloned ==
    /\ ex_pc = "clone"
    /\ ex_pc' = "walk"
    /\ UNCHANGED <<ex_files, all_links, ex_seen>>
    /\ UNCHANGED <<oldVars, svcVars, fnVars, mailVars>>

\* `RepoManager::clone_repo(repo_url, branch.as_deref())?` failed.
ExCloneFailed ==
    /\ ex_pc = "clone"
    /\ ex_pc' = "erred"
    /\ UNCHANGED <<ex_files, all_links, ex_seen>>
    /\ UNCHANGED <<oldVars, svcVars, fnVars, mailVars>>

\* The callback of tree.walk on the next entry of the tree, whatever the
\* entry holds.
ExWalkEntry ==
    /\ ex_pc = "walk"
    /\ Len(ex_files) < MaxFiles
    /\ \E blob \in ExBlobs(ExPaths[Len(ex_files) + 1]) :
        /\ IF blob.utf8
           THEN /\ all_links' = HashSetExtend(all_links,
                                   find_link_in_content(blob.lines, blob.file_path))
                /\ ex_seen' = ex_seen \cup Inserted(blob.lines, blob.file_path)
           ELSE UNCHANGED <<all_links, ex_seen>>
        /\ ex_files' = Append(ex_files, blob.file_path)
    /\ UNCHANGED ex_pc
    /\ UNCHANGED <<oldVars, svcVars, fnVars, mailVars>>

\* The tree has no further entry, the walk is over: `Ok(all_links)`.
ExWalkEnd ==
    /\ ex_pc = "walk"
    /\ ex_pc' = "done"
    /\ UNCHANGED <<ex_files, all_links, ex_seen>>
    /\ UNCHANGED <<oldVars, svcVars, fnVars, mailVars>>

NextExtract ==
    \/ ExCloned
    \/ ExCloneFailed
    \/ ExWalkEntry
    \/ ExWalkEnd

SpecExtract == InitExtract /\ [][NextExtract]_vars

\* C24: the set extract_links_from_repo_url returns holds no two records
\* with the same URL, also when the URL occurs on several lines or in
\* several files.
C24_NoTwoRecordsWithOneUrl ==
    ex_pc = "done" =>
        \A a, b \in all_links : a.url = b.url => a = b

\* One URL was found on two lines of a file and in a second file, once with
\* a closing parenthesis behind it, and the returned set holds it.
C24_Witness ==
    /\ ex_pc = "done"
    /\ \E a, b, c \in ex_seen :
          /\ a.url = b.url /\ b.url = c.url
          /\ a.file_path = b.file_path /\ a.line_number # b.line_number
          /\ c.file_path # a.file_path
    /\ \E m \in all_links : m.url = UrlDocs

\* The position of a visited entry in the order of the walk.
WalkIndex(file_path) ==
    Min({i \in 1..Len(ex_files) : ex_files[i] = file_path})

\* Sighting a is not after sighting b: its file is walked earlier, or it is
\* the same file and its line is not below.
NotAfter(a, b) ==
    \/ WalkIndex(a.file_path) < WalkIndex(b.file_path)
    \/ a.file_path = b.file_path /\ a.line_number <= b.line_number

\* C36: every record of the extracted set is the first sighting of its URL:
\* it is one of the sightings, in the first file in walk order that holds
\* the URL and there on the lowest line; a later sighting never replaces it.
C36_FirstSightingKept ==
    \A l \in all_links :
        /\ l \in ex_seen
        /\ \A s \in ex_seen : s.url = l.url => NotAfter(l, s)

\* The walk is over; one URL was sighted on lines 1 and 2 of the first file
\* and in the second file, and the record is the one of line 1 of the first
\* file.
C36_Witness ==
    /\ ex_pc = "done"
    /\ Len(ex_files) = 2
    /\ \E a, b, c \in ex_seen :
          /\ a.url = b.url /\ b.url = c.url
          /\ a.file_path = ex_files[1] /\ b.file_path = ex_files[1]
          /\ a.line_number = 1 /\ b.line_number = 2
          /\ c.file_path = ex_files[2]
          /\ a \in all_links

-----------------------------------------------------------------------------
(* Pure functions, each applied to arguments drawn from a sample.           *)

\* An absolute http(s) URL given by its components; port 0 is no port.
UrlOf(c) ==
    (IF c.scheme = "https" THEN HTTPS ELSE HTTP)
    \o c.host
    \o (IF c.port = 0 THEN <<>> ELSE <<":">> \o ToDecimal(c.port))
    \o c.path
    \o (IF c.query.some THEN <<"?">> \o c.query.val ELSE <<>>)

X == <<"/", "x">>

TrivialPaths == {<<>>, <<"/">>, X, X \o <<"/">>, X \o <<"/", "/">>, <<"/", "y">>}

TrivialUrls ==
    [scheme : {"http", "https"}, host : {E_IO, GITHUB_COM}, port : {0, 80},
     path : TrivialPaths, query : {None, Some(<<"q">>)}]

TrivialArgs == {[f |-> "is_trivial_redirect", a |-> a, b |-> b] : a, b \in TrivialUrls}

\* GitHubUrl::parse: URLs made of an owner, a repository, a branch and a
\* path, and strings that are no such URL.
ParseSegs == {<<"o">>, <<"a", ".", "b">>, BLOB}

ParsePaths == {<<"a">>, <<"a", "/", "b">>, <<"a", "/">>, <<"/", "a">>, TREE \o <<"/", "m">>}

GITHUB_BASE_URL == HTTPS \o GITHUB_COM \o <<"/">>

FileUrl(c) ==
    GITHUB_BASE_URL \o c.owner \o <<"/">> \o c.repo \o <<"/">> \o c.marker
    \o <<"/">> \o c.branch \o <<"/">> \o c.path

RepoUrl(c) == GITHUB_BASE_URL \o c.owner \o <<"/">> \o c.repo

ParseFileArgs ==
    {[f |-> "GitHubUrl::parse", kind |-> "file", owner |-> o, repo |-> r,
      marker |-> m, branch |-> b, path |-> p] :
        o \in ParseSegs, r \in ParseSegs, m \in {TREE, BLOB}, b \in ParseSegs,
        p \in ParsePaths}

ParseRepoArgs ==
    {[f |-> "GitHubUrl::parse", kind |-> "repo", owner |-> o, repo |-> r] :
        o \in ParseSegs, r \in ParseSegs}

\* Strings with a segment the grammar has no place for.
OutsideGrammar ==
    UNION {{RepoUrl(c) \o <<"/">> \o BLOB,
            RepoUrl(c) \o <<"/">> \o TREE \o <<"/">>,
            RepoUrl(c) \o <<"/">>,
            RepoUrl(c) \o <<"/", "i", "/", "m", "/", "a">>,
            GITHUB_BASE_URL \o c.owner,
            GITHUB_BASE_URL \o <<"/">> \o c.repo,
            HTTPS \o E_IO \o <<"/">> \o c.owner \o <<"/">> \o c.repo,
            HTTPS \o <<"n", "o", "t">> \o GITHUB_COM \o <<"/">> \o c.owner
                \o <<"/">> \o c.repo \o <<"/">> \o BLOB \o <<"/", "m", "/", "a">>,
            DropPrefix(RepoUrl(c), Len(HTTPS))} :
           c \in [owner : ParseSegs, repo : ParseSegs]}

ParseBadArgs == {[f |-> "GitHubUrl::parse", kind |-> "bad", u |-> u] : u \in OutsideGrammar}

ParseArgs == ParseFileArgs \cup ParseRepoArgs \cup ParseBadArgs

\* str::trim_start_matches(pattern): the pattern is removed from the front
\* as often as it stands there.
RECURSIVE TrimStartMatches(_, _)
TrimStartMatches(s, p) ==
    IF p # <<>> /\ HasPrefix(s, p) THEN TrimStartMatches(DropPrefix(s, Len(p)), p)
    ELSE s

\* RepositoryURL::validate
validate(repo_url) ==
    IF ~HasPrefix(repo_url, GITHUB_BASE_URL)
    THEN "URL must start with https://github.com/"
    ELSE LET parts == SplitBy(TrimStartMatches(repo_url, GITHUB_BASE_URL), "/")
         IN  IF Len(parts) # 2 \/ parts[1] = <<>> \/ parts[2] = <<>>
             THEN "URL must be in format https://github.com/{owner}/{repo_name}"
             ELSE "ok"

\* RepositoryURL::new, and Deserialize for RepositoryURL on the decoded
\* string
RepositoryURL_new(repo_url) ==
    IF validate(repo_url) = "ok" THEN [ok |-> TRUE, url |-> repo_url, err |-> ""]
    ELSE [ok |-> FALSE, url |-> <<>>, err |-> validate(repo_url)]

RepoUrlPrefixes ==
    {GITHUB_BASE_URL, GITHUB_BASE_URL \o GITHUB_BASE_URL, HTTP \o GITHUB_COM \o <<"/">>,
     HTTPS \o E_IO \o <<"/">>, <<>>, <<" ">> \o GITHUB_BASE_URL}

RepoUrlTails ==
    {<<>>, <<"o">>, <<"o", "/">>, <<"/", "r">>, <<"o", "/", "r">>,
     <<"o", "/", "r", "/">>, <<"o", "/", "r", "/", "x">>, <<"o", "/", "/", "r">>,
     <<"a", ".", "b", "/">> \o BLOB}

RepoUrlArgs ==
    {[f |-> "RepositoryURL::new", u |-> p \o t] : p \in RepoUrlPrefixes, t \in RepoUrlTails}

\* find_last_commit_id of src/git/file_tracker.rs, which also reports the
\* rename.  A path is the sequence of its components; a delta holds its
\* status and the paths of its old and new file (both set to the one path
\* of an added, deleted or modified file); a commit holds its parent count
\* and the deltas of the diff against its first parent after find_similar,
\* in the order diff.deltas() yields them.
MaxDeltas == 2

Delta(status, old, new) == [status |-> status, old |-> old, new |-> new]

\* Path::starts_with: component-wise prefix
PathStartsWith(path, base) ==
    Len(path) >= Len(base) /\ SubSeq(path, 1, Len(base)) = base

\* Path::to_str / to_string_lossy: the components joined by '/'
RECURSIVE PathStr(_)
PathStr(path) ==
    IF path = <<>> THEN <<>>
    ELSE IF Len(path) = 1 THEN <<path[1]>>
    ELSE <<path[1], "/">> \o PathStr(Tail(path))

\* `path.parent()` made a directory name: a separator is pushed behind it
\* unless it ends with one.
ParentDir(path) ==
    LET dir == PathStr(SubSeq(path, 1, Len(path) - 1))
    IN  IF dir # <<>> /\ dir[Len(dir)] \in {"/", OBS} THEN dir ELSE dir \o <<"/">>

NoHit == [hit |-> FALSE, renamed_path |-> None]

Hit(renamed_path) == [hit |-> TRUE, renamed_path |-> renamed_path]

\* The body of `for delta in diff.deltas()`: the file check, then the
\* directory check.
DeltaCheck(delta, target_path) ==
    IF delta.new = target_path THEN Hit(None)
    ELSE IF PathStartsWith(delta.old, target_path)
    THEN IF delta.old = target_path /\ delta.status = "Renamed"
         THEN Hit(Some(PathStr(delta.new)))
         ELSE IF delta.status = "Renamed" /\ delta.new # <<>>
         THEN Hit(Some(ParentDir(delta.new)))
         ELSE Hit(None)
    ELSE NoHit

\* `for delta in diff.deltas()` from delta j on: the first delta that
\* returns decides.
RECURSIVE ScanDeltas(_, _, _)
ScanDeltas(deltas, target_path, j) ==
    IF j > Len(deltas) THEN NoHit
    ELSE IF DeltaCheck(deltas[j], target_path).hit THEN DeltaCheck(deltas[j], target_path)
    ELSE ScanDeltas(deltas, target_path, j + 1)

NoCommitSearchResult == [ok |-> FALSE, commit |-> 0, renamed_path |-> None]

CommitSearchResult(commit, renamed_path) ==
    [ok |-> TRUE, commit |-> commit, renamed_path |-> renamed_path]

\* The walk with `commit.parent_count() >= 1` for the test of line 49:
\* merge commits are diffed against their first parent as well.
RECURSIVE WalkCommits_with_merges(_, _, _)
WalkCommits_with_merges(commits, target_path, i) ==
    IF i > Len(commits) THEN NoCommitSearchResult
    ELSE IF commits[i].parent_count >= 1
            /\ ScanDeltas(commits[i].deltas, target_path, 1).hit
    THEN CommitSearchResult(i, ScanDeltas(commits[i].deltas, target_path, 1).renamed_path)
    ELSE WalkCommits_with_merges(commits, target_path, i + 1)

\* `for commit_id in revwalk` from commit i on (HEAD is commit 1).
RECURSIVE WalkCommits(_, _, _)
WalkCommits(commits, target_path, i) ==
    IF i > Len(commits) THEN NoCommitSearchResult       \* Err("File not found")
    ELSE IF commits[i].parent_count = 1
            /\ ScanDeltas(commits[i].deltas, target_path, 1).hit
    THEN CommitSearchResult(i, ScanDeltas(commits[i].deltas, target_path, 1).renamed_path)
    ELSE WalkCommits(commits, target_path, i + 1)

find_last_commit_id_renamed(target_file, commits) == WalkCommits(commits, target_file, 1)

\* The sample: the queried path a, beside it b and z, below it a/x, and
\* n/x elsewhere.
QA == <<"a">>

DeltaPaths == {QA, <<"b">>, <<"a", "x">>, <<"n", "x">>, <<"z">>}

Deltas ==
    {Delta(st, p, p) : st \in {"Added", "Deleted", "Modified"}, p \in DeltaPaths}
    \cup {Delta("Renamed", pq[1], pq[2]) :
             pq \in {r \in DeltaPaths \X DeltaPaths : r[1] # r[2]}}

OldTree(ds) == {ds[k].old : k \in {j \in 1..Len(ds) : ds[j].status # "Added"}}

NewTree(ds) == {ds[k].new : k \in {j \in 1..Len(ds) : ds[j].status # "Deleted"}}

\* No path of the set is a directory of another.
FilesOnly(S) == \A p, q \in S : p # q => ~PathStartsWith(p, q)

\* The deltas are those of a diff between two trees: no file of a tree is
\* in two deltas or is a directory of another, an added or renamed-to path
\* is new and a deleted or renamed-from path is gone.
DiffOfTrees(ds) ==
    /\ \A i, j \in 1..Len(ds) :
          i # j => /\ (ds[i].status # "Added" /\ ds[j].status # "Added"
                         => ds[i].old # ds[j].old)
                   /\ (ds[i].status # "Deleted" /\ ds[j].status # "Deleted"
                         => ds[i].new # ds[j].new)
    /\ FilesOnly(OldTree(ds)) /\ FilesOnly(NewTree(ds))
    /\ \A i \in 1..Len(ds) :
          /\ ds[i].status \in {"Added", "Renamed"} => ds[i].new \notin OldTree(ds)
          /\ ds[i].status \in {"Deleted", "Renamed"} => ds[i].old \notin NewTree(ds)

DeltaLists ==
    {ds \in UNION {[1..n -> Deltas] : n \in 0..MaxDeltas} : DiffOfTrees(ds)}

GitCommit(parent_count, deltas) == [parent_count |-> parent_count, deltas |-> deltas]

\* What HEAD may have above the commit: nothing, a merge commit whose diff
\* renames the queried path, or a commit that touches another file.
NewerCommits ==
    {<<>>,
     <<GitCommit(2, <<Delta("Renamed", QA, <<"z">>)>>)>>,
     <<GitCommit(1, <<Delta("Modified", <<"z">>, <<"z">>)>>)>>}

\* The root commit, with the deltas against the empty tree: it adds another
\* file, or the queried path.
RootCommits ==
    {GitCommit(0, <<Delta("Added", <<"z">>, <<"z">>)>>),
     GitCommit(0, <<Delta("Added", QA, QA)>>)}

CommitLists ==
    {newer \o <<GitCommit(1, ds), root>> :
        newer \in NewerCommits, ds \in DeltaLists, root \in RootCommits}

CommitArgs ==
    {[f |-> "find_last_commit_id", target_file |-> QA, commits |-> cs] : cs \in CommitLists}

FnInputs == TrivialArgs \cup ParseArgs \cup RepoUrlArgs \cup CommitArgs

InitFn ==
    /\ OldIdle /\ SvcIdle /\ ExIdle /\ MailIdle
    /\ fn_pc = "call"
    /\ fn_in \in FnInputs
    /\ fn_out = <<>>

\* is_trivial_redirect(original, redirect)
Call_is_trivial_redirect ==
    /\ fn_pc = "call"
    /\ fn_in.f = "is_trivial_redirect"
    /\ fn_out' = is_trivial_redirect(UrlOf(fn_in.a), UrlOf(fn_in.b))
    /\ fn_pc' = "returned"
    /\ UNCHANGED fn_in
    /\ UNCHANGED <<oldVars, svcVars, exVars, mailVars>>

\* GitHubUrl::parse(url)
Call_GitHubUrl_parse ==
    /\ fn_pc = "call"
    /\ fn_in.f = "GitHubUrl::parse"
    /\ fn_out' = GitHubUrlParse(CASE fn_in.kind = "file" -> FileUrl(fn_in)
                                  [] fn_in.kind = "repo" -> RepoUrl(fn_in)
                                  [] OTHER -> fn_in.u)
    /\ fn_pc' = "returned"
    /\ UNCHANGED fn_in
    /\ UNCHANGED <<oldVars, svcVars, exVars, mailVars>>

\* RepositoryURL::new(url)
Call_RepositoryURL_new ==
    /\ fn_pc = "call"
    /\ fn_in.f = "RepositoryURL::new"
    /\ fn_out' = RepositoryURL_new(fn_in.u)
    /\ fn_pc' = "returned"
    /\ UNCHANGED fn_in
    /\ UNCHANGED <<oldVars, svcVars, exVars, mailVars>>

\* find_last_commit_id(target_file, repo)
Call_find_last_commit_id ==
    /\ fn_pc = "call"
    /\ fn_in.f = "find_last_commit_id"
    /\ fn_out' = find_last_commit_id_renamed(fn_in.target_file, fn_in.commits)
    /\ fn_pc' = "returned"
    /\ UNCHANGED fn_in
    /\ UNCHANGED <<oldVars, svcVars, exVars, mailVars>>

NextFn ==
    \/ Call_is_trivial_redirect
    \/ Call_GitHubUrl_parse
    \/ Call_RepositoryURL_new
    \/ Call_find_last_commit_id

SpecFn == InitFn /\ [][NextFn]_vars

-----------------------------------------------------------------------------
(* Claims on is_trivial_redirect *)

FnReturned(f) == fn_pc = "returned" /\ fn_in.f = f

\* The port a URL is served on.
EffectivePort(c) == IF c.port = 0 THEN DefaultPort(c.scheme) ELSE c.port

\* The path of a URL; the empty path of an http(s) URL is "/".
PathOf(c) == IF c.path = <<>> THEN <<"/">> ELSE c.path

OneTrailingSlashApart(p, q) == p = q \o <<"/">> \/ q = p \o <<"/">>

\* C25: is_trivial_redirect(a, b) is true exactly when a and b have equal
\* scheme, host, port and query and their paths are equal or differ by
\* exactly one trailing '/'.
C25_TrivialIffOneSlashApart ==
    FnReturned("is_trivial_redirect") =>
        LET a == fn_in.a
            b == fn_in.b
        IN  fn_out <=>
              /\ a.scheme = b.scheme /\ a.host = b.host
              /\ EffectivePort(a) = EffectivePort(b)
              /\ a.query = b.query
              /\ \/ PathOf(a) = PathOf(b)
                 \/ OneTrailingSlashApart(PathOf(a), PathOf(b))

\* C26: is_trivial_redirect(u, u) is true for every URL u, whatever its
\* path, paths ending in one or several slashes included.
C26_TrivialOnItself ==
    FnReturned("is_trivial_redirect") /\ fn_in.a = fn_in.b => fn_out

-----------------------------------------------------------------------------
(* Claims on GitHubUrl::parse *)

\* C27: GitHubUrl::parse of https://github.com/<owner>/<repo>/blob/<branch>/
\* <path> (or /tree/) returns exactly these four components, of
\* https://github.com/<owner>/<repo> the owner and the repository with no
\* branch and no file path, and None for a string with a segment outside
\* this grammar.
C27_ParseReturnsComponents ==
    FnReturned("GitHubUrl::parse") =>
        CASE fn_in.kind = "file" ->
                fn_out = [ok |-> TRUE, owner |-> fn_in.owner, repo |-> fn_in.repo,
                          branch |-> Some(fn_in.branch),
                          file_path |-> Some(fn_in.path)]
          [] fn_in.kind = "repo" ->
                fn_out = [ok |-> TRUE, owner |-> fn_in.owner, repo |-> fn_in.repo,
                          branch |-> None, file_path |-> None]
          [] OTHER -> ~fn_out.ok

\* A URL whose path holds a '/' was parsed, its owner being named "blob".
C27_Witness ==
    /\ FnReturned("GitHubUrl::parse")
    /\ fn_in.kind = "file"
    /\ fn_in.owner = BLOB
    /\ fn_in.path = <<"a", "/", "b">>
    /\ fn_out.ok /\ fn_out.file_path = Some(<<"a", "/", "b">>)

-----------------------------------------------------------------------------
(* Claims on RepositoryURL::new *)

\* u is "https://github.com/", a non-empty owner, one '/' and a non-empty
\* repository name, with no further '/'.
IsOwnerRepoUrl(u) ==
    /\ HasPrefix(u, GITHUB_BASE_URL)
    /\ LET r == DropPrefix(u, Len(GITHUB_BASE_URL))
           slashes == {i \in 1..Len(r) : r[i] = "/"}
       IN  Cardinality(slashes) = 1 /\ 1 \notin slashes /\ Len(r) \notin slashes

\* C28: RepositoryURL::new(u) returns Ok exactly when u is
\* "https://github.com/" followed by a non-empty owner, one '/' and a
\* non-empty repository name with no further '/'; every other string is
\* rejected.
C28_OkIffOwnerRepoUrl ==
    FnReturned("RepositoryURL::new") => (fn_out.ok <=> IsOwnerRepoUrl(fn_in.u))

-----------------------------------------------------------------------------
(* EmailClient::send_email_with_retry *)

MaxRetries == 4

\* How send_email fails: the request could not be sent or timed out, or
\* the response has an error status.
SendErrors == {"Failed to send email", "Failed to send email. Status"}

InitMail ==
    /\ OldIdle /\ SvcIdle /\ ExIdle /\ FnIdle
    /\ mail_pc = "loop"
    /\ max_retries \in 0..MaxRetries
    /\ attempt = 0
    /\ mail_sent = 0
    /\ mail_in_flight = 0
    /\ mail_failed = <<>>

\* `attempt += 1; match self.send_email(..).await`: the request leaves.
MailSend ==
    /\ mail_pc = "loop"
    /\ attempt' = attempt + 1
    /\ mail_sent' = mail_sent + 1
    /\ mail_in_flight' = mail_in_flight + 1
    /\ mail_pc' = "sending"
    /\ UNCHANGED <<max_retries, mail_failed>>
    /\ UNCHANGED <<oldVars, svcVars, exVars, fnVars>>

\* `Ok(_) => return Ok(())`
MailSendOk ==
    /\ mail_pc = "sending"
    /\ mail_in_flight' = mail_in_flight - 1
    /\ mail_pc' = "ok"
    /\ UNCHANGED <<max_retries, attempt, mail_sent, mail_failed>>
    /\ UNCHANGED <<oldVars, svcVars, exVars, fnVars>>

\* `Err(e) => if attempt >= max_retries { return Err(..) } else { sleep }`
MailSendErr ==
    /\ mail_pc = "sending"
    /\ mail_in_flight' = mail_in_flight - 1
    /\ \E e \in SendErrors : mail_failed' = Append(mail_failed, e)
    /\ mail_pc' = IF attempt >= max_retries THEN "err" ELSE "sleeping"
    /\ UNCHANGED <<max_retries, attempt, mail_sent>>
    /\ UNCHANGED <<oldVars, svcVars, exVars, fnVars>>

\* tokio::time::sleep(retry_delay) is over, the loop goes round.
MailWake ==
    /\ mail_pc = "sleeping"
    /\ mail_pc' = "loop"
    /\ UNCHANGED <<max_retries, attempt, mail_sent, mail_in_flight, mail_failed>>
    /\ UNCHANGED <<oldVars, svcVars, exVars, fnVars>>

NextMail ==
    \/ MailSend
    \/ MailSendOk
    \/ MailSendErr
    \/ MailWake

SpecMail == InitMail /\ [][NextMail]_vars

\* C29: send_email_with_retry sends one request at a time, returns Ok right
\* after the first success without sending again, returns Err after
\* exactly max_retries attempts when all fail, and for every max_retries >= 0
\* sends at most max_retries requests.
C29_AtMostMaxRetriesRequests ==
    /\ mail_in_flight <= 1
    /\ mail_pc = "ok" => mail_sent = Len(mail_failed) + 1
    /\ mail_pc = "err" => mail_sent = max_retries /\ Len(mail_failed) = max_retries
    /\ mail_sent <= max_retries

-----------------------------------------------------------------------------
(* Claims on find_last_commit_id with the rename *)

\* The delta matches the queried path: its new path is the path, or its old
\* path is the path or lies under it.
DeltaMatches(delta, target_path) ==
    delta.new = target_path \/ PathStartsWith(delta.old, target_path)

\* The single-parent commits with a delta matching the queried path.
MatchingCommits(commits, target_path) ==
    {i \in 1..Len(commits) :
        /\ commits[i].parent_count = 1
        /\ \E j \in 1..Len(commits[i].deltas) :
              DeltaMatches(commits[i].deltas[j], target_path)}

\* What the rules give for a set of deltas, whatever their order: the
\* renamed paths the first rule that applies allows.
ByPrecedence(ds, target_path) ==
    LET D == {ds[j] : j \in 1..Len(ds)}
        exact == {d \in D : d.status = "Renamed" /\ d.old = target_path}
        under == {d \in D : d.status = "Renamed" /\ PathStartsWith(d.old, target_path)}
    IN  IF \E d \in D : d.new = target_path THEN {None}
        ELSE IF exact # {} THEN {Some(PathStr(d.new)) : d \in exact}
        ELSE IF under # {} THEN {Some(ParentDir(d.new)) : d \in under}
        ELSE {None}

\* C30: for the most recent single-parent commit with a delta matching the
\* queried path, find_last_commit_id returns what the rules give in their
\* order of precedence, whatever the order of the deltas: None for a delta
\* with the queried path as new path, else the new path of an exact rename,
\* else the parent directory of the new path of a rename below the queried
\* directory; an exact rename wins over a delta that is merely below the
\* queried path.
C30_RulePrecedence ==
    FnReturned("find_last_commit_id")
    /\ MatchingCommits(fn_in.commits, fn_in.target_file) # {} =>
        LET i == Min(MatchingCommits(fn_in.commits, fn_in.target_file))
        IN  /\ fn_out.ok
            /\ fn_out.commit = i
            /\ fn_out.renamed_path
                  \in ByPrecedence(fn_in.commits[i].deltas, fn_in.target_file)

-----------------------------------------------------------------------------
(* Claims on the commits find_last_commit_id examines *)

\* The commit's diff has a delta on the queried path.
Touches(commit, target_path) ==
    \E j \in 1..Len(commit.deltas) : DeltaMatches(commit.deltas[j], target_path)

\* The queried path is touched in the history, and only by merge commits
\* and the root commit.
TouchedOnlyByMergeOrRoot(commits, target_path) ==
    /\ \E i \in 1..Len(commits) : Touches(commits[i], target_path)
    /\ \A i \in 1..Len(commits) :
          Touches(commits[i], target_path) => commits[i].parent_count # 1

\* C31: find_last_commit_id returns a commit with exactly one parent whose
\* diff touches the queried path and that no single-parent commit touching
\* the path precedes in the walk from HEAD; it never returns a merge commit
\* or the root commit, and it fails with "File not found" for a path that
\* only merge commits or only the root commit touch.
C31_OnlySingleParentCommits ==
    FnReturned("find_last_commit_id") =>
        /\ fn_out.ok =>
              /\ fn_out.commit \in 1..Len(fn_in.commits)
              /\ fn_in.commits[fn_out.commit].parent_count = 1
              /\ Touches(fn_in.commits[fn_out.commit], fn_in.target_file)
              /\ \A k \in 1..(fn_out.commit - 1) :
                    fn_in.commits[k].parent_count = 1
                        => ~Touches(fn_in.commits[k], fn_in.target_file)
        /\ TouchedOnlyByMergeOrRoot(fn_in.commits, fn_in.target_file) => ~fn_out.ok

\* The queried path is renamed by a merge commit and added by the root
\* commit, no other commit touches it, and the search has failed.
C31_Witness ==
    /\ FnReturned("find_last_commit_id")
    /\ TouchedOnlyByMergeOrRoot(fn_in.commits, fn_in.target_file)
    /\ \E i \in 1..Len(fn_in.commits) :
          fn_in.commits[i].parent_count = 2 /\ Touches(fn_in.commits[i], fn_in.target_file)
    /\ Touches(fn_in.commits[Len(fn_in.commits)], fn_in.target_file)
    /\ ~fn_out.ok

-----------------------------------------------------------------------------
(* Claims on the references create_fix_pr touches *)

\* The commit, if made, has one parent: the commit HEAD was at when the
\* feature branch was created, which is the commit the clone checked out.
OneParentTheClonedHead ==
    /\ commit_parents # <<>> => commit_parents = <<"c0">>
    /\ refs[Local(branch_name)] = "fix" <=> commit_parents # <<>>

\* The references other than those in `except` are as the clone made them.
RefsAsCloned(except) ==
    \A r \in RefNames \ except : refs[r] = ClonedRefs(cloned_branch, base_branch)[r]

\* C38 as stated: the commit create_fix_pr makes has the commit that was
\* HEAD at the creation of the feature branch as its only parent, and only
\* the local feature branch reference changes: the local base branch and
\* every remote-tracking reference stay as they were, at every step and
\* whatever the outcome.
C38_OnlyFeatureBranchChanges ==
    pr_pc # "idle" /\ branch_name # <<>> =>
        /\ OneParentTheClonedHead
        /\ RefsAsCloned({Local(branch_name)})

\* C38, amended: the same, except that a successful push sets the
\* remote-tracking reference of the feature branch to the pushed commit.
C38_OnlyFeatureBranchAndItsTrackingRef ==
    pr_pc # "idle" /\ branch_name # <<>> =>
        /\ OneParentTheClonedHead
        /\ RefsAsCloned({Local(branch_name), Remote(branch_name)})
        /\ \/ refs[Remote(branch_name)]
                 = ClonedRefs(cloned_branch, base_branch)[Remote(branch_name)]
           \/ /\ refs[Remote(branch_name)] = "fix"
              /\ \E i \in 1..Len(steps) : steps[i] = Step("push", branch_name, TRUE)

\* create_fix_pr returned Ok after the commit and the push: the feature
\* branch and its remote-tracking reference are at the new commit, HEAD is
\* on the feature branch and the cloned branch is where it was.
C38_Witness ==
    /\ pr_pc = "done" /\ pr_result.tag = "Ok"
    /\ commit_parents = <<"c0">>
    /\ head_ref = Local(branch_name)
    /\ refs[Local(branch_name)] = "fix"
    /\ refs[Remote(branch_name)] = "fix"
    /\ refs[Local(cloned_branch)] = "c0"
    /\ base_branch = cloned_branch

-----------------------------------------------------------------------------
(* Claims on the path check_link reports as moved *)

\* The file path of the URL check_link was called with.
UrlFilePath == GitHubUrlParse(url).file_path

-----------------------------------------------------------------------------
(* Claims on the events of the SSE stream *)

\* The positions of the link events among the first n events.
LinkEvents(n) == {k \in 1..n : sse_events[k].kind = "link"}

\* The link events among the first n events that have the status.
WithStatus(n, status) == {k \in LinkEvents(n) : sse_events[k].status = status}

\* C37: after a successful extraction the stream yields one link event for
\* each extracted link and then one summary event, its last event; no link
\* has two events at any time and none follows the summary; the summary's
\* total is the number of link events before it and its valid, invalid,
\* redirect and moved counts are the numbers of link events with the
\* statuses valid, invalid, redirect and file_moved.
C37_OneEventPerLinkThenSummary ==
    svc_pc \in {"sse_loop", "sse_end"} /\ (\A k \in 1..Len(sse_events) :
                                             sse_events[k].kind # "error") =>
        LET n == Len(sse_events)
            last == IF svc_pc = "sse_end" THEN n - 1 ELSE n
        IN  /\ \A k \in 1..last : sse_events[k].kind = "link"
            /\ \A j, k \in 1..last : sse_events[j].url = sse_events[k].url => j = k
            /\ \A k \in 1..last : \E i \in 1..Len(svc_links) :
                  /\ svc_state[i] = "done"
                  /\ sse_events[k].url = svc_links[i].url
                  /\ sse_events[k].file_path = svc_links[i].file_path
                  /\ sse_events[k].line_number = svc_links[i].line_number
                  /\ sse_events[k].status = StatusOf(svc_results[i])
            /\ svc_pc = "sse_end" =>
                  /\ n = Len(svc_links) + 1
                  /\ sse_events[n].kind = "summary"
                  /\ sse_events[n].total = Cardinality(LinkEvents(n - 1))
                  /\ sse_events[n].valid = Cardinality(WithStatus(n - 1, "valid"))
                  /\ sse_events[n].invalid = Cardinality(WithStatus(n - 1, "invalid"))
                  /\ sse_events[n].redirect = Cardinality(WithStatus(n - 1, "redirect"))
                  /\ sse_events[n].moved = Cardinality(WithStatus(n - 1, "file_moved"))

\* The stream has ended after three link events that came in another order
\* than the links were taken, one of them for a moved file, and a summary
\* with total 3.
C37_Witness ==
    /\ svc_pc = "sse_end"
    /\ Len(sse_events) = 4
    /\ sse_events[1].url = svc_links[3].url
    /\ \E k \in 1..3 : sse_events[k].status = "file_moved"
    /\ sse_events[4].kind = "summary"
    /\ sse_events[4].total = 3
    /\ sse_events[4].moved = 1

-----------------------------------------------------------------------------
(* REPO_TASKS: the registry of running checkers.  A call of                 *)
(* check_repository_links makes one CancellationToken, so a token is named  *)
(* by its call.  The calls run as tasks of a multi-threaded runtime: each   *)
(* critical section of the mutex is one step, and steps of different calls  *)
(* interleave.  Two revisions are modelled: schedule/mod.rs tests the key   *)
(* and inserts the token in two critical sections and removes the key when  *)
(* its loop ends; link_checker/scheduler.rs tests and inserts in one and    *)
(* removes nothing, and is reached through check_handler of startup.rs.     *)

MaxCalls == 2

MaxCancels == 2

Calls == 1..MaxCalls

\* RepoKey { repo_url, branch }
RegKeys == {<<"r", "main">>, <<"r", "dev">>}

\* A select! whose cancellation branch is never taken.
CancelledBranchReady_never(c) == FALSE

\* `_ = token.cancelled() =>` is ready
CancelledBranchReady(c) == c \in tok_cancelled

InitReg ==
    /\ NonRegIdle
    /\ reg_rev \in {"schedule", "rook"}
    /\ reg_pc = [c \in Calls |-> "idle"]
    /\ reg_key = [c \in Calls |-> <<>>]
    /\ REPO_TASKS = [k \in RegKeys |-> 0]
    /\ tok_cancelled = {}
    /\ can_pc = "idle"
    /\ can_key = <<>>
    /\ can_token = 0
    /\ can_calls = 0
    /\ hd_pc = [c \in Calls |-> "none"]
    /\ hd_mailed = {}

\* The calls are taken in the order of their numbers.
NextCall(c) == reg_pc[c] = "idle" /\ \A b \in 1..(c - 1) : reg_pc[b] # "idle"

\* check_repository_links(repo_url, branch, ..) is called and builds its
\* repo_key.
RegCall(c, k) ==
    /\ NextCall(c)
    /\ reg_pc' = [reg_pc EXCEPT ![c] = "check"]
    /\ reg_key' = [reg_key EXCEPT ![c] = k]
    /\ UNCHANGED <<reg_rev, REPO_TASKS, tok_cancelled, can_pc, can_key, can_token,
                   can_calls, hd_pc, hd_mailed>>
    /\ UNCHANGED nonRegVars

\* check_handler of startup.rs: spawn_repository_checker spawns the task
\* that calls check_repository_links and returns Ok(()) at once; the
\* handler goes on to send the e-mail.
CheckHandler(c, k) ==
    /\ reg_rev = "rook"
    /\ NextCall(c)
    /\ reg_pc' = [reg_pc EXCEPT ![c] = "check"]
    /\ reg_key' = [reg_key EXCEPT ![c] = k]
    /\ hd_pc' = [hd_pc EXCEPT ![c] = "mail"]
    /\ UNCHANGED <<reg_rev, REPO_TASKS, tok_cancelled, can_pc, can_key, can_token,
                   can_calls, hd_mailed>>
    /\ UNCHANGED nonRegVars

\* check_handler: send_email_with_retry returned Ok; Ok("Repository checker
\* started").
HandlerMailSent(c) ==
    /\ hd_pc[c] = "mail"
    /\ hd_pc' = [hd_pc EXCEPT ![c] = "ok"]
    /\ hd_mailed' = hd_mailed \cup {c}
    /\ UNCHANGED <<reg_rev, reg_pc, reg_key, REPO_TASKS, tok_cancelled, can_pc,
                   can_key, can_token, can_calls>>
    /\ UNCHANGED nonRegVars

\* check_handler: send_email_with_retry returned Err; StatusCode::BAD_REQUEST.
HandlerMailFailed(c) ==
    /\ hd_pc[c] = "mail"
    /\ hd_pc' = [hd_pc EXCEPT ![c] = "bad_request"]
    /\ UNCHANGED <<reg_rev, reg_pc, reg_key, REPO_TASKS, tok_cancelled, can_pc,
                   can_key, can_token, can_calls, hd_mailed>>
    /\ UNCHANGED nonRegVars

\* schedule/mod.rs 35-43: the first critical section, `contains_key`.
RegCheck(c) ==
    /\ reg_rev = "schedule"
    /\ reg_pc[c] = "check"
    /\ reg_pc' = [reg_pc EXCEPT ![c] =
                     IF REPO_TASKS[reg_key[c]] # 0 THEN "rejected" ELSE "insert"]
    /\ UNCHANGED <<reg_rev, reg_key, REPO_TASKS, tok_cancelled, can_pc, can_key,
                   can_token, can_calls, hd_pc, hd_mailed>>
    /\ UNCHANGED nonRegVars

\* schedule/mod.rs 45-49: the token is made and, in a second critical
\* section, inserted; the loop is entered.
RegInsert(c) ==
    /\ reg_rev = "schedule"
    /\ reg_pc[c] = "insert"
    /\ REPO_TASKS' = [REPO_TASKS EXCEPT ![reg_key[c]] = c]
    /\ reg_pc' = [reg_pc EXCEPT ![c] = "select"]
    /\ UNCHANGED <<reg_rev, reg_key, tok_cancelled, can_pc, can_key, can_token,
                   can_calls, hd_pc, hd_mailed>>
    /\ UNCHANGED nonRegVars

\* link_checker/scheduler.rs 176-187: one critical section tests the key
\* and inserts the token.
RegCheckInsert(c) ==
    /\ reg_rev = "rook"
    /\ reg_pc[c] = "check"
    /\ IF REPO_TASKS[reg_key[c]] # 0
       THEN /\ reg_pc' = [reg_pc EXCEPT ![c] = "rejected"]
            /\ UNCHANGED REPO_TASKS
       ELSE /\ REPO_TASKS' = [REPO_TASKS EXCEPT ![reg_key[c]] = c]
            /\ reg_pc' = [reg_pc EXCEPT ![c] = "select"]
    /\ UNCHANGED <<reg_rev, reg_key, tok_cancelled, can_pc, can_key, can_token,
                   can_calls, hd_pc, hd_mailed>>
    /\ UNCHANGED nonRegVars

\* select!: `_ = interval.tick() =>` is taken, whether or not the token is
\* cancelled; the links are extracted and checked.
RegTick(c) ==
    /\ reg_pc[c] = "select"
    /\ reg_pc' = [reg_pc EXCEPT ![c] = "tick"]
    /\ UNCHANGED <<reg_rev, reg_key, REPO_TASKS, tok_cancelled, can_pc, can_key,
                   can_token, can_calls, hd_pc, hd_mailed>>
    /\ UNCHANGED nonRegVars

\* The body of the tick branch is through; back to select!.
RegTickEnd(c) ==
    /\ reg_pc[c] = "tick"
    /\ reg_pc' = [reg_pc EXCEPT ![c] = "select"]
    /\ UNCHANGED <<reg_rev, reg_key, REPO_TASKS, tok_cancelled, can_pc, can_key,
                   can_token, can_calls, hd_pc, hd_mailed>>
    /\ UNCHANGED nonRegVars

\* select!: `_ = token.cancelled() => { .. break; }`; scheduler.rs then
\* returns Ok(()).
RegCancelled(c) ==
    /\ reg_pc[c] = "select"
    /\ CancelledBranchReady(c)
    /\ reg_pc' = [reg_pc EXCEPT ![c] = IF reg_rev = "schedule" THEN "cleanup" ELSE "done"]
    /\ UNCHANGED <<reg_rev, reg_key, REPO_TASKS, tok_cancelled, can_pc, can_key,
                   can_token, can_calls, hd_pc, hd_mailed>>
    /\ UNCHANGED nonRegVars

\* schedule/mod.rs 97-103: `map.remove(&repo_key)` and Ok(()).
RegCleanup(c) ==
    /\ reg_pc[c] = "cleanup"
    /\ REPO_TASKS' = [REPO_TASKS EXCEPT ![reg_key[c]] = 0]
    /\ reg_pc' = [reg_pc EXCEPT ![c] = "done"]
    /\ UNCHANGED <<reg_rev, reg_key, tok_cancelled, can_pc, can_key, can_token,
                   can_calls, hd_pc, hd_mailed>>
    /\ UNCHANGED nonRegVars

\* cancel_repository_checker(repo_url, branch) is called, the call before
\* it having returned.
CancelCall(k) ==
    /\ can_pc \in {"idle", "ok", "err"}
    /\ can_calls < MaxCancels
    /\ can_pc' = "call"
    /\ can_key' = k
    /\ can_token' = 0
    /\ can_calls' = can_calls + 1
    /\ UNCHANGED <<reg_rev, reg_pc, reg_key, REPO_TASKS, tok_cancelled, hd_pc,
                   hd_mailed>>
    /\ UNCHANGED nonRegVars

\* `let token = { let mut map = ..lock(); map.remove(&repo_key) };` and, for
\* None, Err("No active checker found ..").
CancelRemove ==
    /\ can_pc = "call"
    /\ can_token' = REPO_TASKS[can_key]
    /\ REPO_TASKS' = [REPO_TASKS EXCEPT ![can_key] = 0]
    /\ can_pc' = IF REPO_TASKS[can_key] # 0 THEN "removed" ELSE "err"
    /\ UNCHANGED <<reg_rev, reg_pc, reg_key, tok_cancelled, can_key, can_calls,
                   hd_pc, hd_mailed>>
    /\ UNCHANGED nonRegVars

\* `token.cancel()` and Ok(()).
CancelToken ==
    /\ can_pc = "removed"
    /\ tok_cancelled' = tok_cancelled \cup {can_token}
    /\ can_pc' = "ok"
    /\ UNCHANGED <<reg_rev, reg_pc, reg_key, REPO_TASKS, can_key, can_token,
                   can_calls, hd_pc, hd_mailed>>
    /\ UNCHANGED nonRegVars

NextReg ==
    \/ \E c \in Calls, k \in RegKeys : RegCall(c, k)
    \/ \E c \in Calls, k \in RegKeys : CheckHandler(c, k)
    \/ \E c \in Calls : HandlerMailSent(c)
    \/ \E c \in Calls : HandlerMailFailed(c)
    \/ \E c \in Calls : RegCheck(c)
    \/ \E c \in Calls : RegInsert(c)
    \/ \E c \in Calls : RegCheckInsert(c)
    \/ \E c \in Calls : RegTick(c)
    \/ \E c \in Calls : RegTickEnd(c)
    \/ \E c \in Calls : RegCancelled(c)
    \/ \E c \in Calls : RegCleanup(c)
    \/ \E k \in RegKeys : CancelCall(k)
    \/ CancelRemove
    \/ CancelToken

SpecReg == InitReg /\ [][NextReg]_vars

\* The scheduling the runtime gives: a tick body comes to its end (every
\* link check terminates), a call that holds the mutex or is about to
\* return does so, and select! takes the cancellation branch at some
\* iteration once the token is cancelled, the ready branches being polled
\* in random order.
RegFairness ==
    /\ \A c \in Calls :
          /\ WF_vars(RegTickEnd(c))
          /\ SF_vars(RegCancelled(c))
          /\ WF_vars(RegCleanup(c))
    /\ WF_vars(CancelRemove)
    /\ WF_vars(CancelToken)

SpecRegFair == SpecReg /\ RegFairness

-----------------------------------------------------------------------------
(* Claims on the registry *)

\* A step of cancel_repository_checker does what the claim says: on a
\* registered key the key is removed and its token taken, the token is then
\* cancelled and Ok returned; on an unregistered key Err is returned and
\* neither the registry nor a token changes.
CancelStepsAsSpecified ==
    /\ can_pc = "call" /\ can_pc' # "call" =>
          IF REPO_TASKS[can_key] # 0
          THEN /\ can_pc' = "removed"
               /\ can_token' = REPO_TASKS[can_key]
               /\ REPO_TASKS' = [REPO_TASKS EXCEPT ![can_key] = 0]
          ELSE /\ can_pc' = "err"
               /\ REPO_TASKS' = REPO_TASKS
               /\ tok_cancelled' = tok_cancelled
    /\ can_pc = "removed" /\ can_pc' # "removed" =>
          /\ can_pc' = "ok"
          /\ can_token \in tok_cancelled'
          /\ REPO_TASKS' = REPO_TASKS

\* C35: cancel_repository_checker for a registered key removes the key,
\* cancels its token and returns Ok, and the loop that holds the token then
\* eventually leaves its loop and returns Ok(()); for an unregistered key
\* it returns Err and leaves the registry unchanged.
C35_CancelStopsTheLoop ==
    /\ [][CancelStepsAsSpecified]_vars
    /\ (can_pc = "removed") ~> (can_pc = "ok")
    /\ \A c \in Calls : (c \in tok_cancelled) ~> (reg_pc[c] = "done")

\* A cancel call returned Ok, the loop whose token it cancelled has
\* returned, and the key is not registered.
C35_Witness ==
    /\ can_pc = "ok"
    /\ can_token \in tok_cancelled
    /\ reg_pc[can_token] = "done"
    /\ REPO_TASKS[can_key] = 0

\* The call is in its loop: past the registration and not yet out of the
\* select! loop.
InLoop(c) == reg_pc[c] \in {"select", "tick"}

\* A cancel call holds the token of call c: it has removed it from the
\* registry and is about to cancel it.
HeldByCancel(c) == can_pc = "removed" /\ can_token = c

\* The token of call c is live: neither cancelled nor about to be.
TokenLive(c) == c \notin tok_cancelled /\ ~HeldByCancel(c)

\* C32: a call of check_repository_links on a registered key returns the
\* error without touching the registration and without a loop, and of two
\* calls with one key that run concurrently one registers and the other
\* returns the error: a rejected call never has a token in the registry or
\* a loop, and no two calls with the same key are in their loops with live
\* tokens.
C32_OneRegistrationPerKey ==
    /\ \A c \in Calls :
          reg_pc[c] = "rejected" =>
              /\ REPO_TASKS[reg_key[c]] # c
              /\ c \notin tok_cancelled
    /\ \A a, b \in Calls :
          a # b /\ reg_key[a] = reg_key[b] /\ InLoop(a) /\ InLoop(b)
              => ~TokenLive(a) \/ ~TokenLive(b)

\* C33: every running loop whose token is live has its key in REPO_TASKS
\* mapped to its own token.
C33_RunningLoopIsRegistered ==
    \A c \in Calls :
        InLoop(c) /\ TokenLive(c) => REPO_TASKS[reg_key[c]] = c

\* C34: at no instant are two loops of one key in their tick bodies.
C34_OneLoopPerKeyExecuting ==
    \A a, b \in Calls :
        a # b /\ reg_key[a] = reg_key[b] => ~(reg_pc[a] = "tick" /\ reg_pc[b] = "tick")

\* C40: when the check_repository_links that a POST /check started has
\* returned the "already being monitored" error and the handler has
\* answered, the answer is an error status and the e-mail "Repository
\* checker started" was not sent.
C40_DuplicateCheckIsRejected ==
    \A c \in Calls :
        reg_pc[c] = "rejected" /\ hd_pc[c] \in {"ok", "bad_request"}
            => hd_pc[c] = "bad_request" /\ c \notin hd_mailed

=============================================================================
